---- MODULE Spec2Model ----
(***************************************************************************)
(* State-machine model of the GasingIO simulation session (the multi-mode  *)
(* variant, src/unnamed/part_002): the game object held in gameRef, the    *)
(* React state and refs the loop reads and writes, the key handlers, the   *)
(* host animation callback with its fixed-step loop, and the collision     *)
(* handler.                                                                *)
(*                                                                         *)
(* Numbers.  RPM values are held as integers in units of 1/RU RPM, so that *)
(* every RPM constant of the source (0.4, 0.14, 10/60, 0.45, ...) is an    *)
(* integer; lengths are held in units of 1/DU pixel (0.8 px drift = 4).    *)
(* The arithmetic is that of the rationals: floating-point rounding of the *)
(* source's doubles is not modelled.                                       *)
(*                                                                         *)
(* Physics.  Matter.Engine.update is external: a fixed step lets it move   *)
(* every live body to any place of the step's input set and report any     *)
(* list of collision pairs.  Math.random() is an input as well.            *)
(***************************************************************************)
EXTENDS Integers, Sequences, FiniteSets, TLC

\* ------------------------------------------------------------------ units
RU == 60 * 5
DU == 4 + 1

Min(a, b) == IF a < b THEN a ELSE b
Max(a, b) == IF a > b THEN a ELSE b
Abs(a) == IF a < 0 THEN 0 - a ELSE a

RECURSIVE SqrtIter(_, _)
SqrtIter(n, x) ==
  LET y == (x + n \div x) \div 2 IN IF y >= x THEN x ELSE SqrtIter(n, y)

\* Math.sqrt on the integers: exact on perfect squares, the floor otherwise.
Sqrt(n) == IF n <= 0 THEN 0 ELSE SqrtIter(n, n)

\* Math.sqrt(dx * dx + dy * dy)
Hypot(dx, dy) ==
  IF dy = 0 THEN Abs(dx) ELSE IF dx = 0 THEN Abs(dy) ELSE Sqrt(dx * dx + dy * dy)

\* ------------------------------------------------------------- constants
CANVAS_W == 1200
CANVAS_H == 800
CX == (CANVAS_W \div 2) * DU
CY == (CANVAS_H \div 2) * DU
ARENA_R == 380 * DU
PLAYER_R == 22 * DU
EXIT_MARGIN == 50 * DU

SWEET_LOW == 40 * RU
SWEET_HIGH == 60 * RU
RPM_MAX == 100 * RU
BOT_RPM_CAP == 90 * RU

RPM_DECAY_PER_FRAME == (4 * RU) \div 10
RPM_GAIN_PER_PRESS == 3 * RU
STARTING_RPM == 50 * RU

OUTSIDE_DECAY_MULT == 4
\* OUTSIDE_GAIN_MULT = 0.15, applied to a gain g as g * 15 / 100
OUTSIDE_GAIN_PCT == 15
OutsideGain(g) == (g * OUTSIDE_GAIN_PCT) \div 100

SAFE_ZONE_INITIAL == 360 * DU
SAFE_ZONE_MIN == 0
SAFE_ZONE_SHRINK_PER_SEC == 8 * DU
SAFE_ZONE_DRIFT_SPEED == (8 * DU) \div 10

MAX_BOTS == 25
BOT_SPIN_GAIN == 6 * RU
BOT_EMERGENCY_SPIN_GAIN == 10 * RU
\* "frames between counting chain hits"; no statement of the source reads it
BOT_COLLISION_COOLDOWN == 15
BOT_CHAIN_WINDOW == 120
BOT_RPM_FLOOR_INSIDE == 20 * RU
\* BOT_PASSIVE_REGEN / 60, the regeneration of one frame
BOT_PASSIVE_REGEN_PER_FRAME == (10 * RU) \div 60
\* RPM_DECAY_PER_FRAME * 0.35
BOT_DECAY_PER_FRAME == (RPM_DECAY_PER_FRAME * 35) \div 100
CHAIN_BASE == 5 * RU
CHAIN_STEP == 5 * RU
NEVER_HIT == 0 - 999

SURVIVAL_SPAWN_INTERVAL == 180
SURVIVAL_SAFE_ZONE_SHRINK == 2 * DU

BOSS_RPM == 40 * RU
BOSS_RPM_PER_ROUND == 15 * RU
DUEL_LASER_SPEED == 8 * DU
DUEL_LASER_INTERVAL == 12
DUEL_LASER_LIFE == 120
DUEL_BOMB_SPEED == 4 * DU
DUEL_BOMB_INTERVAL == 12
DUEL_BOMB_EXPLODE_R == 60 * DU
DUEL_BOMB_DMG == 12 * RU
DUEL_LASER_DMG == 8 * RU
DUEL_COLLISION_MULT == 3
DUEL_SAFE_ZONE_SHRINK == 4 * DU
DUEL_ROUND_TRANSITION_FRAMES == 180
DUEL_PROJECTILE_INVULN == 20
DUEL_LAST_ROUND == 3
DUEL_BOSS_SPIN_GAIN == 3 * RU
BOMB_EXPLODE_FRAMES == 20

\* FIXED_DT = 1000 / 60 ms and the 200 ms clamp, in units of 1/3 ms
FIXED_DT == 50
ELAPSED_CLAMP == 200 * 3

\* ---------------------------------------------------------------- places
Pos(x, y) == [x |-> x, y |-> y]
Centre == Pos(CX, CY)
PlayerStart == Pos(CX - 200 * DU, CY)
BossStart == Pos(CX + 200 * DU, CY)
ZeroVel == Pos(0, 0)

\* The body of the player is 0, the body labelled bot_<i-1> is i, and any
\* wall segment is WALL.
PLAYER == 0
WALL == 0 - 1

\* dist2Center(body)
dist2Center(p) == Hypot(p.x - CX, p.y - CY)

\* distToSafeZone(body)
distToSafeZone(g, p) == Hypot(p.x - g.safeZoneCX, p.y - g.safeZoneCY)

\* ------------------------------------------------------ collision handler
BodyPos(g, id) == IF id = PLAYER THEN g.player.pos ELSE g.bots[id].pos
BodyVel(g, id) == IF id = PLAYER THEN g.player.vel ELSE g.bots[id].vel

\* bots.find((b) => b.body === body && b.alive)
LiveBot(g, id) == id \in 1..Len(g.bots) /\ g.bots[id].alive

NoRoles == [valid |-> FALSE, attacker |-> WALL, defender |-> WALL,
            attackerRPM |-> 0, defenderRPM |-> 0]

\* "Figure out who's who": the roles the handler gives the pair (bodyA, bodyB)
Roles(g, bodyA, bodyB) ==
  LET isPlayerA == bodyA = PLAYER
      isPlayerB == bodyB = PLAYER
      botA == LiveBot(g, bodyA)
      botB == LiveBot(g, bodyB)
  IN IF bodyA = WALL \/ bodyB = WALL THEN NoRoles
     ELSE IF isPlayerA /\ botB THEN
       [valid |-> TRUE, attacker |-> bodyA, defender |-> bodyB,
        attackerRPM |-> g.currentRPM, defenderRPM |-> g.bots[bodyB].rpm]
     ELSE IF isPlayerB /\ botA THEN
       [valid |-> TRUE, attacker |-> bodyB, defender |-> bodyA,
        attackerRPM |-> g.currentRPM, defenderRPM |-> g.bots[bodyA].rpm]
     ELSE IF botA /\ botB THEN
       IF g.bots[bodyA].rpm >= g.bots[bodyB].rpm THEN
         [valid |-> TRUE, attacker |-> bodyA, defender |-> bodyB,
          attackerRPM |-> g.bots[bodyA].rpm, defenderRPM |-> g.bots[bodyB].rpm]
       ELSE
         [valid |-> TRUE, attacker |-> bodyB, defender |-> bodyA,
          attackerRPM |-> g.bots[bodyB].rpm, defenderRPM |-> g.bots[bodyA].rpm]
     ELSE NoRoles

\* g.gameMode === 'duel' && attacker.label === 'bot_0'
isDuelBoss(g, r) == g.gameMode = "duel" /\ r.attacker = 1

\* (10 + Math.max(0, attackerRPM - defenderRPM) * 0.08) * duelMult
playerDrain(g, r) ==
  LET duelMult == IF isDuelBoss(g, r) THEN DUEL_COLLISION_MULT ELSE 1
  IN (10 * RU + (Max(0, r.attackerRPM - r.defenderRPM) * 8) \div 100) * duelMult

\* A faulty chain rule, whose window is one frame too long
ChainHitsAfterLate(g, bot) ==
  IF g.frameCount - bot.lastHitFrame <= BOT_CHAIN_WINDOW
  THEN bot.chainHits + 1 ELSE 1

\* chainHits after this hit of the bot
ChainHitsAfter(g, bot) ==
  IF g.frameCount - bot.lastHitFrame < BOT_CHAIN_WINDOW
  THEN bot.chainHits + 1 ELSE 1

\* playerSpeed * 3, the duel-mode momentum bonus of a hit by the player
momentumBonus(g, r) ==
  IF g.gameMode = "duel" /\ r.attacker = PLAYER
  THEN (Hypot(g.player.vel.x, g.player.vel.y) * 3 * RU) \div DU
  ELSE 0

\* 5 + (chainHits - 1) * 5 (+ momentumBonus)
chainDrain(g, r) ==
  CHAIN_BASE + (ChainHitsAfter(g, g.bots[r.defender]) - 1) * CHAIN_STEP
  + momentumBonus(g, r)

\* A faulty drain, which takes only half of the chain drain
DrainBotHalf(rpm, drain) == Max(0, rpm - drain \div 2)

\* defBot.rpm = Math.max(0, defBot.rpm - chainDrain)
DrainBot(rpm, drain) == Max(0, rpm - drain)

\* The RPM drain of one collision with roles r.
ApplyDrain(g, r) ==
  IF r.defender = PLAYER
  THEN [g EXCEPT !.currentRPM = Max(0, g.currentRPM - playerDrain(g, r))]
  ELSE LET defBot == g.bots[r.defender]
       IN [g EXCEPT !.bots[r.defender] =
            [defBot EXCEPT !.chainHits = ChainHitsAfter(g, defBot),
                           !.lastHitFrame = g.frameCount,
                           !.rpm = DrainBot(defBot.rpm, chainDrain(g, r)),
                           !.lastDrain = chainDrain(g, r)]]

\* Knockback, in 1/1000 of a unit of force: KNOCKBACK_BASE = 1.04,
\* KNOCKBACK_RPM_MULT = 1.0008 per RPM, VELOCITY_KNOCKBACK = 1.015 per px a
\* step of closing speed
KNOCKBACK_BASE == 1040
KNOCKBACK_RPM_MULT == 10008
VELOCITY_KNOCKBACK == 1015

\* Math.abs(relVx * nx + relVy * ny), the closing speed along the collision
\* axis n = (dx, dy) / (dist || 1)
relSpeed(g, r) ==
  LET dx == BodyPos(g, r.defender).x - BodyPos(g, r.attacker).x
      dy == BodyPos(g, r.defender).y - BodyPos(g, r.attacker).y
      d0 == Hypot(dx, dy)
      dist == IF d0 = 0 THEN DU ELSE d0
      relVx == BodyVel(g, r.attacker).x - BodyVel(g, r.defender).x
      relVy == BodyVel(g, r.attacker).y - BodyVel(g, r.defender).y
  IN Abs((relVx * dx + relVy * dy) \div dist)

\* A faulty knockback, whose over-spin bonus is applied as 0.6
knockbackDamped(attackerRPM, defenderRPM, speed, boss) ==
  LET f0 == KNOCKBACK_BASE + (attackerRPM * KNOCKBACK_RPM_MULT) \div (RU * 10)
            + (speed * VELOCITY_KNOCKBACK) \div DU
      f1 == IF boss THEN f0 * 2 ELSE f0
      f2 == IF attackerRPM >= SWEET_HIGH THEN (f1 * 6) \div 10 ELSE f1
  IN IF defenderRPM < SWEET_LOW THEN (f2 * 15) \div 10 ELSE f2

\* force: base + RPM scaling + velocity impact, doubled for the duel boss,
\* times 1.6 for an over-spinning attacker, times 1.5 for a wobbling defender
knockback(attackerRPM, defenderRPM, speed, boss) ==
  LET f0 == KNOCKBACK_BASE + (attackerRPM * KNOCKBACK_RPM_MULT) \div (RU * 10)
            + (speed * VELOCITY_KNOCKBACK) \div DU
      f1 == IF boss THEN f0 * 2 ELSE f0
      f2 == IF attackerRPM >= SWEET_HIGH THEN (f1 * 16) \div 10 ELSE f1
  IN IF defenderRPM < SWEET_LOW THEN (f2 * 15) \div 10 ELSE f2

\* Self-recoil of an over-spinning attacker: force * 0.5 along -n, force being
\* the knockback as it stands when the over-spin bonus has been applied; 0
\* when the attacker gets no recoil
selfRecoil(attackerRPM, speed, boss) ==
  LET f0 == KNOCKBACK_BASE + (attackerRPM * KNOCKBACK_RPM_MULT) \div (RU * 10)
            + (speed * VELOCITY_KNOCKBACK) \div DU
      f1 == IF boss THEN f0 * 2 ELSE f0
  IN IF attackerRPM >= SWEET_HIGH THEN ((f1 * 16) \div 10) \div 2 ELSE 0

\* What one collision did, as the handler computed it: the roles, the
\* attacker->defender vector the knockback is applied along (to the
\* defender), whether the attacker got the over-spin bonus and recoil, and
\* the drain; for a bot defender also the frames since its previous hit, the
\* drain of that previous hit, its chainHits before and after this hit and the momentum
\* bonus inside the drain; the closing speed, the knockback force and the
\* force of the attacker's recoil; the defender's RPM after the drain and
\* whether the collision left the attacker as it was.
HitRecord(g, r) ==
  [attacker |-> r.attacker, defender |-> r.defender,
   sinceLast |-> IF r.defender = PLAYER THEN 0
                 ELSE g.frameCount - g.bots[r.defender].lastHitFrame,
   prevDrain |-> IF r.defender = PLAYER THEN 0 ELSE g.bots[r.defender].lastDrain,
   chainBefore |-> IF r.defender = PLAYER THEN 0
                   ELSE g.bots[r.defender].chainHits,
   chainHits |-> IF r.defender = PLAYER THEN 0
                 ELSE ChainHitsAfter(g, g.bots[r.defender]),
   momentum |-> IF r.defender = PLAYER THEN 0 ELSE momentumBonus(g, r),
   attackerRPM |-> r.attackerRPM, defenderRPM |-> r.defenderRPM,
   dx |-> BodyPos(g, r.defender).x - BodyPos(g, r.attacker).x,
   dy |-> BodyPos(g, r.defender).y - BodyPos(g, r.attacker).y,
   boss |-> isDuelBoss(g, r),
   recoil |-> r.attackerRPM >= SWEET_HIGH,
   wobble |-> r.defenderRPM < SWEET_LOW,
   drain |-> IF r.defender = PLAYER THEN playerDrain(g, r) ELSE chainDrain(g, r),
   frame |-> g.frameCount,
   relSpeed |-> relSpeed(g, r),
   force |-> knockback(r.attackerRPM, r.defenderRPM, relSpeed(g, r), isDuelBoss(g, r)),
   recoilForce |-> selfRecoil(r.attackerRPM, relSpeed(g, r), isDuelBoss(g, r)),
   defenderAfter |-> IF r.defender = PLAYER THEN ApplyDrain(g, r).currentRPM
                     ELSE ApplyDrain(g, r).bots[r.defender].rpm,
   attackerKept |-> IF r.attacker = PLAYER
                    THEN ApplyDrain(g, r).currentRPM = g.currentRPM
                    ELSE ApplyDrain(g, r).bots[r.attacker] = g.bots[r.attacker]]

\* The collisionStart handler on one pair; s.hits logs the collisions the
\* handler resolved in this fixed step.
collisionPair(s, pair) ==
  LET r == Roles(s.game, pair[1], pair[2])
  IN IF ~r.valid THEN s
     ELSE [s EXCEPT !.game = ApplyDrain(s.game, r),
                    !.hits = Append(s.hits, HitRecord(s.game, r))]

RECURSIVE collisionStart(_, _)
\* for (const pair of event.pairs)
collisionStart(s, pairs) ==
  IF pairs = <<>> THEN s
  ELSE collisionStart(collisionPair(s, Head(pairs)), Tail(pairs))

\* ------------------------------------------------------------ game object
NoGame == [gameMode |-> "none"]

\* A bot of the roster; lastDrain remembers the drain of the bot's last hit
\* (0: never hit), which the source computes and does not keep.
NewBot(pos, vel, rpm) ==
  [pos |-> pos, vel |-> vel, rpm |-> rpm, alive |-> TRUE,
   lastHitFrame |-> NEVER_HIT, chainHits |-> 0, lastDrain |-> 0]

\* Bot i of n in the ring of the arena roster: angle (i / n) * 2 PI at
\* distance 180 + Math.random() * 80, taken as 200, for the rosters whose
\* angles are multiples of PI / 2.
RingPos(i, n) ==
  LET q == ((i - 1) * 4) \div n
  IN CASE q = 0 -> Pos(CX + 200 * DU, CY)
       [] q = 1 -> Pos(CX, CY + 200 * DU)
       [] q = 2 -> Pos(CX - 200 * DU, CY)
       [] OTHER -> Pos(CX, CY - 200 * DU)

\* The roster initGame builds: botCount bots in arena mode with the start
\* RPMs rpms (50 + Math.random() * 20 each), the boss in duel mode, nobody
\* in survival mode.
InitBots(mode, botCount, rpms) ==
  IF mode = "arena"
  THEN [i \in 1..botCount |-> NewBot(RingPos(i, botCount), ZeroVel, rpms[i])]
  ELSE IF mode = "duel" THEN << NewBot(BossStart, ZeroVel, BOSS_RPM) >>
  ELSE << >>

\* A faulty game object, which begins with a kill and a spin key on record
NewGameUsed(mode, botCount, rpms, target) ==
  [gameMode |-> mode,
   player |-> [pos |-> Centre, vel |-> ZeroVel],
   bots |-> InitBots(mode, botCount, rpms),
   currentRPM |-> STARTING_RPM,
   safeZone |-> SAFE_ZONE_INITIAL,
   safeZoneCX |-> CX, safeZoneCY |-> CY,
   szTargetX |-> target.x, szTargetY |-> target.y,
   keys |-> {},
   lastSpinKey |-> "j",
   frameCount |-> 0,
   playerAlive |-> TRUE,
   lastTimestampSet |-> FALSE,
   accumulator |-> 0,
   kills |-> 1,
   nextBotSpawnFrame |-> SURVIVAL_SPAWN_INTERVAL,
   botSpawnIndex |-> 0,
   duelRound |-> 1,
   duelLasers |-> << >>,
   duelBombs |-> << >>,
   lastLaserFrame |-> 0,
   lastBombFrame |-> 0,
   duelBossMaxRPM |-> BOSS_RPM,
   duelTransition |-> FALSE,
   duelTransitionTimer |-> 0,
   lastProjectileHitFrame |-> NEVER_HIT]

\* const game = { ... }: the game object of a new session; target is the
\* first random drift target of the safe zone centre.
NewGame(mode, botCount, rpms, target) ==
  [gameMode |-> mode,
   player |-> [pos |-> Centre, vel |-> ZeroVel],
   bots |-> InitBots(mode, botCount, rpms),
   currentRPM |-> STARTING_RPM,
   safeZone |-> SAFE_ZONE_INITIAL,
   safeZoneCX |-> CX, safeZoneCY |-> CY,
   szTargetX |-> target.x, szTargetY |-> target.y,
   keys |-> {},
   lastSpinKey |-> "",
   frameCount |-> 0,
   playerAlive |-> TRUE,
   lastTimestampSet |-> FALSE,
   accumulator |-> 0,
   kills |-> 0,
   nextBotSpawnFrame |-> SURVIVAL_SPAWN_INTERVAL,
   botSpawnIndex |-> 0,
   duelRound |-> 1,
   duelLasers |-> << >>,
   duelBombs |-> << >>,
   lastLaserFrame |-> 0,
   lastBombFrame |-> 0,
   duelBossMaxRPM |-> BOSS_RPM,
   duelTransition |-> FALSE,
   duelTransitionTimer |-> 0,
   lastProjectileHitFrame |-> NEVER_HIT]

\* --------------------------------------------------- React state updates
\* setGameState(value)
SetState(phase, isWinner, playersAlive, kills) ==
  [kind |-> "set", phase |-> phase, isWinner |-> isWinner,
   playersAlive |-> playersAlive, kills |-> kills, aliveCount |-> 0]

\* setGameState(prev => ...): the updater of the end of a fixed step, which
\* captured that step's aliveCount and totalAlive
TickUpdate(aliveCount, totalAlive) ==
  [kind |-> "tick", phase |-> "", isWinner |-> FALSE,
   playersAlive |-> totalAlive, kills |-> 0, aliveCount |-> aliveCount]

\* setGameState(prev => ({ ...prev, phase })), the updater of a pause request
PhaseUpdate(phase) ==
  [kind |-> "phase", phase |-> phase, isWinner |-> FALSE,
   playersAlive |-> 0, kills |-> 0, aliveCount |-> 0]

\* ------------------------------------------------------------- fixed step
\* A fixed step works on s = [game, gameOver, pending, hits, aliveCount,
\* reset]: the game object, gameOverRef.current, the queued gameState
\* updates, the collisions resolved, the step's aliveCount and whether the
\* step reset the duel round.  Its input `in` holds what the physics engine
\* and Math.random() decide.

\* Matter.Engine.update: the engine moves the player and the live bots and
\* reports the collision pairs, which the collisionStart handler resolves.
EngineUpdate(s, in) ==
  LET g == s.game
      moved == [g EXCEPT
                 !.player = [pos |-> in.ppos, vel |-> in.pvel],
                 !.bots = [i \in 1..Len(g.bots) |->
                            IF g.bots[i].alive
                            THEN [g.bots[i] EXCEPT !.pos = in.bpos[i],
                                                   !.vel = in.bvel[i]]
                            ELSE g.bots[i]]]
  IN collisionStart([s EXCEPT !.game = moved], in.pairs)

\* A faulty spawn, which does not look at game.playerAlive
survivalSpawnAnyway(s, in) ==
  LET g == s.game
  IN IF g.gameMode = "survival" /\ g.frameCount >= g.nextBotSpawnFrame
     THEN LET spawnDist == ARENA_R - 30 * DU
              sx == CX + in.holeCos * spawnDist
              sy == CY + in.holeSin * spawnDist
              toCenter == Pos((CX - sx) \div 100, (CY - sy) \div 100)
          IN [s EXCEPT
               !.game.bots = Append(@, NewBot(Pos(sx, sy), toCenter, in.spawnRpm)),
               !.game.botSpawnIndex = @ + 1,
               !.game.nextBotSpawnFrame = g.frameCount + SURVIVAL_SPAWN_INTERVAL]
     ELSE s

\* Survival mode: spawn a bot from a hole
survivalSpawn(s, in) ==
  LET g == s.game
  IN IF g.gameMode = "survival" /\ g.frameCount >= g.nextBotSpawnFrame
        /\ g.playerAlive
     THEN LET spawnDist == ARENA_R - 30 * DU
              sx == CX + in.holeCos * spawnDist
              sy == CY + in.holeSin * spawnDist
              toCenter == Pos((CX - sx) \div 100, (CY - sy) \div 100)
          IN [s EXCEPT
               !.game.bots = Append(@, NewBot(Pos(sx, sy), toCenter, in.spawnRpm)),
               !.game.botSpawnIndex = @ + 1,
               !.game.nextBotSpawnFrame = g.frameCount + SURVIVAL_SPAWN_INTERVAL]
     ELSE s

\* let decay = RPM_DECAY_PER_FRAME; if (pOutside) decay *= OUTSIDE_DECAY_MULT
playerDecay(pOutside) ==
  IF pOutside THEN RPM_DECAY_PER_FRAME * OUTSIDE_DECAY_MULT
  ELSE RPM_DECAY_PER_FRAME

\* Player: RPM decay and the elimination check
playerStep(s) ==
  LET g == s.game
  IN IF ~g.playerAlive THEN s
     ELSE LET pOutside == distToSafeZone(g, g.player.pos) > g.safeZone
              rpm == Max(0, g.currentRPM - playerDecay(pOutside))
              out == rpm <= 0 \/ dist2Center(g.player.pos) > ARENA_R + EXIT_MARGIN
          IN IF out
             THEN [s EXCEPT !.game.currentRPM = rpm,
                            !.game.playerAlive = FALSE,
                            !.gameOver = TRUE,
                            !.pending = Append(@, SetState("gameover", FALSE, 0, g.kills))]
             ELSE [s EXCEPT !.game.currentRPM = rpm]

\* const shrinkRate = ...
\* A faulty rate, which is the arena's in every mode
shrinkRateArena(g) == SAFE_ZONE_SHRINK_PER_SEC

shrinkRate(g) ==
  IF g.gameMode = "duel" THEN DUEL_SAFE_ZONE_SHRINK
  ELSE IF g.gameMode = "survival" THEN SURVIVAL_SAFE_ZONE_SHRINK
  ELSE SAFE_ZONE_SHRINK_PER_SEC

\* A faulty shrink, which adds the shrink rate every 60th frame
grown(g) ==
  IF g.frameCount % 60 = 0 /\ g.safeZone > SAFE_ZONE_MIN
  THEN g.safeZone + shrinkRate(g)
  ELSE g.safeZone

\* The radius after the shrink of this frame
shrunk(g) ==
  IF g.frameCount % 60 = 0 /\ g.safeZone > SAFE_ZONE_MIN
  THEN Max(SAFE_ZONE_MIN, g.safeZone - shrinkRate(g))
  ELSE g.safeZone

\* Safe zone shrink + drift; in.szCos, in.szSin and in.szPct are the random
\* angle and the random share of maxDrift of a new drift target.
safeZoneStep(s, in) ==
  LET g == [s.game EXCEPT !.safeZone = shrunk(s.game)]
      szDx == g.szTargetX - g.safeZoneCX
      szDy == g.szTargetY - g.safeZoneCY
      szDist == Hypot(szDx, szDy)
      maxDrift == Max(50 * DU, ARENA_R - g.safeZone - 40 * DU)
      drift == (maxDrift * in.szPct) \div 100
  IN IF szDist > 5 * DU
     THEN [s EXCEPT !.game =
            [g EXCEPT !.safeZoneCX = @ + (szDx * SAFE_ZONE_DRIFT_SPEED) \div szDist,
                      !.safeZoneCY = @ + (szDy * SAFE_ZONE_DRIFT_SPEED) \div szDist]]
     ELSE [s EXCEPT !.game =
            [g EXCEPT !.szTargetX = CX + in.szCos * drift,
                      !.szTargetY = CY + in.szSin * drift]]

\* bot.rpm = BOSS_RPM + game.duelRound * 15, the RPM of the revived boss
bossRoundRPM(round) == BOSS_RPM + round * BOSS_RPM_PER_ROUND

\* Duel mode, boss eliminated before the last round: start the round
\* transition and reset boss, player, safe zone and projectiles.
duelRoundReset(s, i) ==
  LET g == s.game
      round == g.duelRound + 1
      boss == [g.bots[i] EXCEPT !.alive = TRUE,
                                !.rpm = bossRoundRPM(round),
                                !.pos = BossStart,
                                !.vel = ZeroVel]
  IN [s EXCEPT
       !.reset = TRUE,
       !.game = [g EXCEPT !.duelRound = round,
                          !.duelTransition = TRUE,
                          !.duelTransitionTimer = DUEL_ROUND_TRANSITION_FRAMES,
                          !.bots[i] = boss,
                          !.duelBossMaxRPM = boss.rpm,
                          !.player = [pos |-> PlayerStart, vel |-> ZeroVel],
                          !.currentRPM = STARTING_RPM,
                          !.safeZone = SAFE_ZONE_INITIAL,
                          !.safeZoneCX = CX,
                          !.safeZoneCY = CY,
                          !.duelLasers = << >>,
                          !.duelBombs = << >>]]

\* A faulty elimination, which leaves gameOverRef alone at the duel victory
eliminateBotOpen(s, i) ==
  LET dead == [s EXCEPT !.game.bots[i].alive = FALSE,
                        !.game.kills = @ + 1]
  IN IF s.game.gameMode = "duel"
     THEN IF s.game.duelRound < DUEL_LAST_ROUND
          THEN duelRoundReset(dead, i)
          ELSE [dead EXCEPT
                 !.pending = Append(@, SetState("gameover", TRUE, 1, dead.game.kills))]
     ELSE dead

\* Elimination of bot i: RPM death or flew out through a hole
eliminateBot(s, i) ==
  LET dead == [s EXCEPT !.game.bots[i].alive = FALSE,
                        !.game.kills = @ + 1]
  IN IF s.game.gameMode = "duel"
     THEN IF s.game.duelRound < DUEL_LAST_ROUND
          THEN duelRoundReset(dead, i)
          ELSE [dead EXCEPT
                 !.gameOver = TRUE,
                 !.pending = Append(@, SetState("gameover", TRUE, 1, dead.game.kills))]
     ELSE dead

\* A faulty bot decay, which is the same inside and outside the safe zone
botDecayFlat(bOutside) == BOT_DECAY_PER_FRAME

\* let botDecay = RPM_DECAY_PER_FRAME * 0.35; if (bOutside) botDecay *= ...
botDecay(bOutside) ==
  IF bOutside THEN BOT_DECAY_PER_FRAME * OUTSIDE_DECAY_MULT
  ELSE BOT_DECAY_PER_FRAME

\* bot.rpm = Math.min(90, bot.rpm + gain)
botGain(rpm, gain) == Min(BOT_RPM_CAP, rpm + gain)

\* A faulty RPM management, which has no floor inside the safe zone
botRpmNoFloor(g, rpm, bOutside, spin, emergency) ==
  LET duel == g.gameMode = "duel"
      r1 == Max(0, rpm - botDecay(bOutside))
      r2 == IF ~bOutside /\ ~duel
            THEN botGain(r1, BOT_PASSIVE_REGEN_PER_FRAME) ELSE r1
      spinGain == IF duel THEN DUEL_BOSS_SPIN_GAIN ELSE BOT_SPIN_GAIN
      r4 == IF spin
            THEN botGain(r2, IF bOutside THEN OutsideGain(spinGain) ELSE spinGain)
            ELSE r2
      r5 == IF ~duel /\ r4 < SWEET_LOW /\ emergency
            THEN botGain(r4, IF bOutside THEN OutsideGain(BOT_EMERGENCY_SPIN_GAIN)
                             ELSE BOT_EMERGENCY_SPIN_GAIN)
            ELSE r4
  IN r5

\* Bot RPM management of one frame: decay, passive regeneration and floor
\* inside the safe zone, the regular spin (spin: Math.random() < spinChance)
\* and the emergency spin (emergency: Math.random() < the emergency chance).
botRpm(g, rpm, bOutside, spin, emergency) ==
  LET duel == g.gameMode = "duel"
      r1 == Max(0, rpm - botDecay(bOutside))
      r2 == IF ~bOutside /\ ~duel
            THEN botGain(r1, BOT_PASSIVE_REGEN_PER_FRAME) ELSE r1
      r3 == IF ~bOutside /\ r2 < BOT_RPM_FLOOR_INSIDE /\ ~duel
            THEN BOT_RPM_FLOOR_INSIDE ELSE r2
      spinGain == IF duel THEN DUEL_BOSS_SPIN_GAIN ELSE BOT_SPIN_GAIN
      r4 == IF spin
            THEN botGain(r3, IF bOutside THEN OutsideGain(spinGain) ELSE spinGain)
            ELSE r3
      r5 == IF ~duel /\ r4 < SWEET_LOW /\ emergency
            THEN botGain(r4, IF bOutside THEN OutsideGain(BOT_EMERGENCY_SPIN_GAIN)
                             ELSE BOT_EMERGENCY_SPIN_GAIN)
            ELSE r4
  IN r5

\* Reset chain if no hits for 2 seconds
chainAfterFrame(g, bot) ==
  IF g.frameCount - bot.lastHitFrame > BOT_CHAIN_WINDOW THEN 0 ELSE bot.chainHits

\* ------------------------------------------------------------------ bot AI
\* Vectors of the AI are in 1/1000.  The four holes, top, right, bottom and
\* left: CX + Math.cos(ha) * ARENA_R, CY + Math.sin(ha) * ARENA_R
Holes ==
  << Pos(CX, CY - ARENA_R), Pos(CX + ARENA_R, CY),
     Pos(CX, CY + ARENA_R), Pos(CX - ARENA_R, CY) >>

BOT_SEPARATION_RADIUS == 100 * DU
MIN_RPM_ADVANTAGE == 10 * RU

NoPush == [x |-> 0, y |-> 0, nan |-> FALSE]

\* The push on a body at `at` away from `from`, felt within `radius`:
\* (dx / d) * ((radius - d) / radius) * weight, the weight in tenths.  At
\* d = 0 the source divides 0 by 0: nan.
push(at, from, radius, tenths) ==
  LET dx == at.x - from.x
      dy == at.y - from.y
      d == Hypot(dx, dy)
      urgency == ((radius - d) * 100) \div radius
  IN IF d >= radius THEN NoPush
     ELSE IF d = 0 THEN [NoPush EXCEPT !.nan = TRUE]
     ELSE [x |-> (((dx * 1000) \div d) * urgency * tenths) \div 1000,
           y |-> (((dy * 1000) \div d) * urgency * tenths) \div 1000,
           nan |-> FALSE]

RECURSIVE sumPush(_)
\* sepX += ..., dodgeX += ..., fleeX += ...: the sum of a sequence of pushes
sumPush(ps) ==
  IF ps = << >> THEN NoPush
  ELSE LET rest == sumPush(Tail(ps))
       IN [x |-> Head(ps).x + rest.x, y |-> Head(ps).y + rest.y,
           nan |-> Head(ps).nan \/ rest.nan]

\* Separation force: the pushes of the other live bots closer than
\* BOT_SEPARATION_RADIUS (and not at distance 0)
separation(g, i) ==
  sumPush([o \in 1..Len(g.bots) |->
             IF o # i /\ g.bots[o].alive
             THEN [push(g.bots[i].pos, g.bots[o].pos, BOT_SEPARATION_RADIUS, 10)
                     EXCEPT !.nan = FALSE]
             ELSE NoPush])

\* Danger avoidance: the pushes of stronger bots within 120, of a stronger
\* player within 140 and of the holes within 100
dodge(g, i) ==
  sumPush([o \in 1..Len(g.bots) |->
             IF o # i /\ g.bots[o].alive /\ g.bots[o].rpm > g.bots[i].rpm + 5 * RU
             THEN push(g.bots[i].pos, g.bots[o].pos, 120 * DU, 20)
             ELSE NoPush]
          \o << IF g.playerAlive /\ g.currentRPM > g.bots[i].rpm + 5 * RU
                THEN push(g.bots[i].pos, g.player.pos, 140 * DU, 30)
                ELSE NoPush >>
          \o [h \in 1..Len(Holes) |-> push(g.bots[i].pos, Holes[h], 100 * DU, 25)])

\* const isDodging = dodgeLen > 0.5, false when dodgeLen is NaN
isDodging(v) == ~v.nan /\ Hypot(v.x, v.y) > 500

\* The distance the chase gives another bot o: Math.sqrt(odx * odx + ody *
\* ody) with ody = o.body.position.y - o.body.position.y
otherDist(g, i, o) ==
  Hypot(g.bots[o].pos.x - g.bots[i].pos.x, g.bots[o].pos.y - g.bots[o].pos.y)

\* score = (bot.rpm - rpm) / (dist + 1) * 100, times 0.5 + personality for
\* the player (percent: 100 for another bot)
score(g, i, rpm, dist, percent) ==
  ((((g.bots[i].rpm - rpm) * 1000) \div (dist + DU)) * percent) \div 100

\* The other bots the chase considers: alive, more than MIN_RPM_ADVANTAGE
\* weaker, closer than 200, sorted by distance, the first two
otherBots(g, i) ==
  LET weaker == {o \in 1..Len(g.bots) \ {i} :
                   /\ g.bots[o].alive
                   /\ g.bots[o].rpm + MIN_RPM_ADVANTAGE < g.bots[i].rpm
                   /\ otherDist(g, i, o) < 200 * DU}
      before(a, b) == \/ otherDist(g, i, a) < otherDist(g, i, b)
                      \/ otherDist(g, i, a) = otherDist(g, i, b) /\ a < b
  IN {o \in weaker : Cardinality({p \in weaker : before(p, o)}) < 2}

\* bestTarget: the candidates (the player first, PLAYER, then the other
\* bots by distance) with their scores; the best score wins, the earlier
\* candidate on a tie.  The empty set when there is no candidate.
bestTarget(g, i, personality) ==
  LET bot == g.bots[i]
      pDist == Hypot(g.player.pos.x - bot.pos.x, g.player.pos.y - bot.pos.y)
      player == IF /\ g.playerAlive
                   /\ g.currentRPM + MIN_RPM_ADVANTAGE < bot.rpm
                   /\ pDist < 200 * DU
                THEN {PLAYER} ELSE {}
      cands == player \cup otherBots(g, i)
      sc(c) == IF c = PLAYER THEN score(g, i, g.currentRPM, pDist, 50 + personality)
               ELSE score(g, i, g.bots[c].rpm, otherDist(g, i, c), 100)
      earlier(a, b) ==
        \/ a = PLAYER
        \/ /\ b # PLAYER
           /\ \/ otherDist(g, i, a) < otherDist(g, i, b)
              \/ otherDist(g, i, a) = otherDist(g, i, b) /\ a < b
  IN {c \in cands :
        \A c2 \in cands \ {c} :
          sc(c) > sc(c2) \/ (sc(c) = sc(c2) /\ earlier(c, c2))}

\* A faulty decision, which looks at the safe zone before the danger
intentEdgeFirst(dodging, edge, rpm, targets) ==
  IF edge THEN "survival"
  ELSE IF dodging THEN "dodge"
  ELSE IF rpm > SWEET_LOW + 5 * RU
  THEN IF targets # {} THEN "chase" ELSE "wander"
  ELSE "flee"

\* AI decision making: if (isDodging) ... else if (bOutside || bDistSz >
\* game.safeZone * 0.85) ... else if (bot.rpm > SWEET_LOW + 5) ... else ...
intent(dodging, edge, rpm, targets) ==
  IF dodging THEN "dodge"
  ELSE IF edge THEN "survival"
  ELSE IF rpm > SWEET_LOW + 5 * RU
  THEN IF targets # {} THEN "chase" ELSE "wander"
  ELSE "flee"

\* What the AI of live bot i did in this fixed step: whether it applied the
\* separation force, the facts it decided on (dodging; dodgeNaN: the danger
\* avoidance divided 0 by 0; edge: outside the safe zone or beyond 85% of its
\* radius; its RPM), the movement force it applied
\* and, for the forces that head for a point, the point; for a chase the
\* target with its alive flag, RPM and position.
botAI(g, i, personality) ==
  LET bot == g.bots[i]
      bDistSz == distToSafeZone(g, bot.pos)
      sep == separation(g, i)
      dodging == isDodging(dodge(g, i))
      edge == bDistSz > g.safeZone \/ bDistSz * 100 > g.safeZone * 85
      targets == IF dodging \/ edge THEN {} ELSE bestTarget(g, i, personality)
      move == intent(dodging, edge, bot.rpm, targets)
      target == IF move = "chase" THEN CHOOSE c \in targets : TRUE ELSE i
  IN [bot |-> i, separated |-> Hypot(sep.x, sep.y) > 0,
      dodging |-> dodging, dodgeNaN |-> dodge(g, i).nan,
      edge |-> edge, rpm |-> bot.rpm,
      intent |-> move,
      toward |-> IF move = "survival" THEN Pos(g.safeZoneCX, g.safeZoneCY)
                 ELSE IF move = "chase" THEN BodyPos(g, target)
                 ELSE bot.pos,
      target |-> target,
      targetAlive |-> IF target = PLAYER THEN g.playerAlive ELSE g.bots[target].alive,
      targetRPM |-> IF target = PLAYER THEN g.currentRPM ELSE g.bots[target].rpm]

\* The AI of bot i; s.ai logs what the AI of each live bot did in this fixed
\* step.  The personality of the boss is 0.8, that of another bot is random.
botThink(s, i, in) ==
  [s EXCEPT !.ai = Append(@, botAI(s.game, i,
                                   IF s.game.gameMode = "duel" THEN 80
                                   ELSE in.personality))]

\* The body of the bot loop for bot i
\* A faulty bot step, which does not skip a bot that is not alive
botStepAgain(s, i, in) ==
  LET g == s.game
      bot == g.bots[i]
      bDist == dist2Center(bot.pos)
      bDistSz == distToSafeZone(g, bot.pos)
      bOutside == bDistSz > g.safeZone
  IN IF bot.rpm <= 0 \/ bDist > ARENA_R + EXIT_MARGIN THEN eliminateBot(s, i)
     ELSE botThink(
            [s EXCEPT
              !.aliveCount = @ + 1,
              !.game.bots[i] =
                [bot EXCEPT !.rpm = botRpm(g, bot.rpm, bOutside,
                                           i \in in.spin, i \in in.emergency),
                            !.chainHits = chainAfterFrame(g, bot)]],
            i, in)

botStep(s, i, in) ==
  LET g == s.game
      bot == g.bots[i]
      bDist == dist2Center(bot.pos)
      bDistSz == distToSafeZone(g, bot.pos)
      bOutside == bDistSz > g.safeZone
  IN IF ~bot.alive THEN s
     ELSE IF bot.rpm <= 0 \/ bDist > ARENA_R + EXIT_MARGIN THEN eliminateBot(s, i)
     ELSE botThink(
            [s EXCEPT
              !.aliveCount = @ + 1,
              !.game.bots[i] =
                [bot EXCEPT !.rpm = botRpm(g, bot.rpm, bOutside,
                                           i \in in.spin, i \in in.emergency),
                            !.chainHits = chainAfterFrame(g, bot)]],
            i, in)

RECURSIVE botLoop(_, _, _)
\* for (const bot of game.bots), from bot i on
botLoop(s, i, in) ==
  IF i > Len(s.game.bots) THEN s ELSE botLoop(botStep(s, i, in), i + 1, in)

\* ---------------------------------------------------------- boss weapons
\* The boss->player vector scaled to a projectile speed: (dx / d) * speed
\* with d = Math.sqrt(dx * dx + dy * dy) || 1
Aim(g, speed) ==
  LET dx == g.player.pos.x - g.bots[1].pos.x
      dy == g.player.pos.y - g.bots[1].pos.y
      d0 == Hypot(dx, dy)
      d == IF d0 = 0 THEN DU ELSE d0
  IN [vx |-> (dx * speed) \div d, vy |-> (dy * speed) \div d, d |-> d]

\* Round 2+: fire a laser toward the player
fireLaser(g) ==
  IF g.duelRound >= 2 /\ g.frameCount - g.lastLaserFrame >= DUEL_LASER_INTERVAL
  THEN LET a == Aim(g, DUEL_LASER_SPEED)
       IN [g EXCEPT !.lastLaserFrame = g.frameCount,
                    !.duelLasers = Append(@, [x |-> g.bots[1].pos.x,
                                              y |-> g.bots[1].pos.y,
                                              vx |-> a.vx, vy |-> a.vy,
                                              life |-> DUEL_LASER_LIFE])]
  ELSE g

\* A faulty bomb, which the boss throws from round 2 on
fireBombEarly(g) ==
  IF g.duelRound >= 2 /\ g.frameCount - g.lastBombFrame >= DUEL_BOMB_INTERVAL
  THEN LET a == Aim(g, DUEL_BOMB_SPEED)
       IN [g EXCEPT !.lastBombFrame = g.frameCount,
                    !.duelBombs = Append(@, [x |-> g.bots[1].pos.x,
                                             y |-> g.bots[1].pos.y,
                                             vx |-> a.vx, vy |-> a.vy,
                                             timer |-> Max(30, a.d \div DUEL_BOMB_SPEED),
                                             exploded |-> FALSE,
                                             explodeTimer |-> 0])]
  ELSE g

\* Round 3+: throw a bomb toward the player
fireBomb(g) ==
  IF g.duelRound >= 3 /\ g.frameCount - g.lastBombFrame >= DUEL_BOMB_INTERVAL
  THEN LET a == Aim(g, DUEL_BOMB_SPEED)
       IN [g EXCEPT !.lastBombFrame = g.frameCount,
                    !.duelBombs = Append(@, [x |-> g.bots[1].pos.x,
                                             y |-> g.bots[1].pos.y,
                                             vx |-> a.vx, vy |-> a.vy,
                                             timer |-> Max(30, a.d \div DUEL_BOMB_SPEED),
                                             exploded |-> FALSE,
                                             explodeTimer |-> 0])]
  ELSE g

\* game.frameCount - game.lastProjectileHitFrame < DUEL_PROJECTILE_INVULN
isInvuln(g) == g.frameCount - g.lastProjectileHitFrame < DUEL_PROJECTILE_INVULN

\* A faulty projectile hit, which ignores the invulnerability window
projectileHitAlways(g, damage) ==
  [g EXCEPT !.currentRPM = Max(0, g.currentRPM - damage),
            !.lastProjectileHitFrame = g.frameCount]

\* game.currentRPM = Math.max(0, game.currentRPM - damage) of a projectile
projectileHit(g, damage) ==
  IF isInvuln(g) THEN g
  ELSE [g EXCEPT !.currentRPM = Max(0, g.currentRPM - damage),
                 !.lastProjectileHitFrame = g.frameCount]

\* What one projectile that reached the player did: its kind, the frame, the
\* frames since the last projectile hit, its damage, and the player's RPM
\* and game.lastProjectileHitFrame before and after it
ShotRecord(g, kind, damage) ==
  [kind |-> kind, frame |-> g.frameCount,
   sinceLast |-> g.frameCount - g.lastProjectileHitFrame,
   damage |-> damage,
   before |-> g.currentRPM, after |-> projectileHit(g, damage).currentRPM,
   lastBefore |-> g.lastProjectileHitFrame,
   lastAfter |-> projectileHit(g, damage).lastProjectileHitFrame]

\* A projectile reaches the player; s.shots logs the projectiles that did
\* in this fixed step.
shot(s, kind, damage) ==
  [s EXCEPT !.game = projectileHit(s.game, damage),
            !.shots = Append(@, ShotRecord(s.game, kind, damage))]

RECURSIVE updateLasersForever(_, _, _)
RECURSIVE updateLasers(_, _, _)
\* A faulty laser update, which keeps a laser whose life has run out
updateLasersForever(s, i, kept) ==
  IF i = 0 THEN [s EXCEPT !.game.duelLasers = kept]
  ELSE LET l == s.game.duelLasers[i]
           laser == [l EXCEPT !.x = l.x + l.vx, !.y = l.y + l.vy, !.life = l.life - 1]
           lDist == Hypot(laser.x - s.game.player.pos.x, laser.y - s.game.player.pos.y)
       IN IF lDist < PLAYER_R + 6 * DU
          THEN updateLasersForever(shot(s, "laser", DUEL_LASER_DMG), i - 1, kept)
          ELSE IF laser.x < 0 \/ laser.x > CANVAS_W * DU
                  \/ laser.y < 0 \/ laser.y > CANVAS_H * DU
          THEN updateLasersForever(s, i - 1, kept)
          ELSE updateLasersForever(s, i - 1, <<laser>> \o kept)

\* for (let i = game.duelLasers.length - 1; i >= 0; i--): laser i of the
\* list as it was, `kept` being the lasers after it that stay
updateLasers(s, i, kept) ==
  IF i = 0 THEN [s EXCEPT !.game.duelLasers = kept]
  ELSE LET l == s.game.duelLasers[i]
           laser == [l EXCEPT !.x = l.x + l.vx, !.y = l.y + l.vy, !.life = l.life - 1]
           lDist == Hypot(laser.x - s.game.player.pos.x, laser.y - s.game.player.pos.y)
       IN IF lDist < PLAYER_R + 6 * DU
          THEN updateLasers(shot(s, "laser", DUEL_LASER_DMG), i - 1, kept)
          ELSE IF laser.life <= 0 \/ laser.x < 0 \/ laser.x > CANVAS_W * DU
                  \/ laser.y < 0 \/ laser.y > CANVAS_H * DU
          THEN updateLasers(s, i - 1, kept)
          ELSE updateLasers(s, i - 1, <<laser>> \o kept)

\* DUEL_BOMB_DMG * falloff, falloff = 1 - bDist / DUEL_BOMB_EXPLODE_R
bombDamage(bDist) ==
  (DUEL_BOMB_DMG * (DUEL_BOMB_EXPLODE_R - bDist)) \div DUEL_BOMB_EXPLODE_R

RECURSIVE updateBombs(_, _, _)
\* for (let i = game.duelBombs.length - 1; i >= 0; i--)
updateBombs(s, i, kept) ==
  IF i = 0 THEN [s EXCEPT !.game.duelBombs = kept]
  ELSE LET b == s.game.duelBombs[i]
       IN IF ~b.exploded
          THEN LET moved == [b EXCEPT !.x = b.x + b.vx, !.y = b.y + b.vy,
                                      !.timer = b.timer - 1]
                   bDist == Hypot(moved.x - s.game.player.pos.x,
                                  moved.y - s.game.player.pos.y)
               IN IF moved.timer <= 0
                  THEN updateBombs(
                         IF bDist < DUEL_BOMB_EXPLODE_R
                         THEN shot(s, "bomb", bombDamage(bDist)) ELSE s,
                         i - 1,
                         <<[moved EXCEPT !.exploded = TRUE, !.explodeTimer = BOMB_EXPLODE_FRAMES]>> \o kept)
                  ELSE updateBombs(s, i - 1, <<moved>> \o kept)
          ELSE IF b.explodeTimer - 1 <= 0
          THEN updateBombs(s, i - 1, kept)
          ELSE updateBombs(s, i - 1,
                           <<[b EXCEPT !.explodeTimer = b.explodeTimer - 1]>> \o kept)

\* Duel mode: boss weapons
weaponsStep(s) ==
  LET g == s.game
  IN IF g.gameMode = "duel" /\ g.playerAlive
     THEN LET fired == IF Len(g.bots) >= 1 /\ g.bots[1].alive
                       THEN fireBomb(fireLaser(g)) ELSE g
              lasered == updateLasers([s EXCEPT !.game = fired],
                                      Len(fired.duelLasers), << >>)
          IN updateBombs(lasered, Len(lasered.game.duelBombs), << >>)
     ELSE s

\* Update alive count: the queued update of the alive count
aliveUpdate(s) ==
  LET totalAlive == s.aliveCount + (IF s.game.playerAlive THEN 1 ELSE 0)
  IN [s EXCEPT !.pending = Append(@, TickUpdate(s.aliveCount, totalAlive))]

\* Center gravity: allBodies = [player, ...bots.filter(b => b.alive)]; the
\* bodies more than 5 px from the centre are pulled towards it
gravityBodies(g) ==
  {b \in {PLAYER} \cup {i \in 1..Len(g.bots) : g.bots[i].alive} :
     dist2Center(BodyPos(g, b)) > 5 * DU}

\* s.gravity logs the bodies the fixed step applied the gravity force to
centerGravity(s) == [s EXCEPT !.gravity = gravityBodies(s.game)]

\* One iteration of the fixed-step loop outside a round transition, from
\* game.frameCount++ to the queued update of the alive count.
fixedStepBody(s0, in) ==
  aliveUpdate(
    weaponsStep(
      botLoop(
        safeZoneStep(
          playerStep(
            centerGravity(
              survivalSpawn(
                EngineUpdate([s0 EXCEPT !.game.frameCount = @ + 1], in),
                in))),
          in),
        1, in)))

\* The entities a fixed step left alive with an RPM of 0
zeroAlive(g) ==
  (IF g.playerAlive /\ g.currentRPM <= 0 THEN {PLAYER} ELSE {})
  \cup {i \in 1..Len(g.bots) : g.bots[i].alive /\ g.bots[i].rpm <= 0}

\* ------------------------------------------------------------------ state
VARIABLES
  game,        \* gameRef.current: the game object, NoGame when null
  gameState,   \* the rendered React state gameState
  pending,     \* setGameState calls React has queued and not yet rendered
  isPaused,    \* isPausedRef.current
  gameOver,    \* gameOverRef.current
  gameMode,    \* the React state gameMode (menu selection)
  botCount,    \* the React state botCount (menu selection)
  loop,        \* the host callback: whether its while loop is running, the
               \* isGameOver it read when it began, and the iterations its
               \* while loop has run
  obs          \* what the last step did (observation only: no guard and
               \* no other variable depends on it)

vars == <<game, gameState, pending, isPaused, gameOver, gameMode, botCount, loop, obs>>

\* obs: the kind of the last step, the key of a key event, the collisions a
\* fixed step resolved, whether it reset the duel round, and wonTick: some
\* fixed step of this session ended with every arena bot eliminated and the
\* player alive.  zero: the entities the last fixed step left alive with an
\* RPM of 0; gravity: the bodies the last fixed step pulled to the centre;
\* after: at a session start, the phase the previous session was restarted
\* from; elapsed: at a callback, timestamp - game.lastTimestamp before the
\* clamp; ai: what the AI of each live bot did in the last fixed step;
\* shots: the projectiles that reached the player in the last fixed step.
Obs(ev) == [ev |-> ev, key |-> "", hits |-> << >>, reset |-> FALSE,
            wonTick |-> FALSE, zero |-> {}, gravity |-> {}, after |-> "",
            elapsed |-> 0, ai |-> << >>, shots |-> << >>]
Seen(ev) == [Obs(ev) EXCEPT !.wonTick = obs.wonTick, !.zero = obs.zero]

Init ==
  /\ game = NoGame
  /\ gameState = [phase |-> "menu", isWinner |-> FALSE, playersAlive |-> 11, kills |-> 0]
  /\ pending = << >>
  /\ isPaused = FALSE
  /\ gameOver = FALSE
  /\ gameMode = "arena"
  /\ botCount = 10
  /\ loop = [active |-> FALSE, isGameOver |-> FALSE, steps |-> 0]
  /\ obs = Obs("init")

Playing == game # NoGame
Idle == ~loop.active

\* ------------------------------------------------------------- React state
\* The updater queued at the end of a fixed step, run on prev when React
\* renders; it reads the game object as it is then.
\* A faulty updater, which declares the victory in every mode
tickUpdaterAnyMode(prev, u) ==
  IF prev.phase # "playing" THEN prev
  ELSE IF u.aliveCount = 0 /\ game.playerAlive
  THEN [phase |-> "gameover", isWinner |-> TRUE, playersAlive |-> 1, kills |-> game.kills]
  ELSE IF game.gameMode = "survival" /\ ~game.playerAlive
  THEN [phase |-> "gameover", isWinner |-> FALSE, playersAlive |-> 0, kills |-> game.kills]
  ELSE [prev EXCEPT !.playersAlive = u.playersAlive, !.kills = game.kills]

tickUpdater(prev, u) ==
  IF prev.phase # "playing" THEN prev
  ELSE IF game.gameMode = "arena" /\ u.aliveCount = 0 /\ game.playerAlive
  THEN [phase |-> "gameover", isWinner |-> TRUE, playersAlive |-> 1, kills |-> game.kills]
  ELSE IF game.gameMode = "survival" /\ ~game.playerAlive
  THEN [phase |-> "gameover", isWinner |-> FALSE, playersAlive |-> 0, kills |-> game.kills]
  ELSE [prev EXCEPT !.playersAlive = u.playersAlive, !.kills = game.kills]

\* gameOverRef.current = true, the side effect of the updater's win branch
tickUpdaterWins(prev, u) ==
  /\ prev.phase = "playing"
  /\ game.gameMode = "arena" /\ u.aliveCount = 0 /\ game.playerAlive

\* One queued update applied to r = [gs, over]
applyUpdate(r, u) ==
  CASE u.kind = "set" ->
         [r EXCEPT !.gs = [phase |-> u.phase, isWinner |-> u.isWinner,
                           playersAlive |-> u.playersAlive, kills |-> u.kills]]
    [] u.kind = "phase" -> [r EXCEPT !.gs.phase = u.phase]
    [] OTHER -> [gs |-> tickUpdater(r.gs, u),
                 over |-> r.over \/ tickUpdaterWins(r.gs, u)]

RECURSIVE applyUpdates(_, _)
applyUpdates(r, us) ==
  IF us = << >> THEN r ELSE applyUpdates(applyUpdate(r, Head(us)), Tail(us))

\* React renders: the queued gameState updates are applied in order.
render ==
  /\ Idle
  /\ pending # << >>
  /\ LET r == applyUpdates([gs |-> gameState, over |-> gameOver], pending)
     IN /\ gameState' = r.gs
        /\ gameOver' = r.over
  /\ pending' = << >>
  /\ obs' = Seen("render")
  /\ UNCHANGED <<game, isPaused, gameMode, botCount, loop>>

\* ----------------------------------------------------------------- control
\* The menu selection (setGameMode, setBotCount) followed by startGame and
\* the effect that runs initGame for the new gameId.
startGame(E) ==
  /\ Idle /\ pending = << >>
  /\ gameState.phase = "menu"
  /\ \E mode \in E.modes, n \in E.botCounts, target \in E.targets :
       \E rpms \in [1..n -> E.startRpms] :
         /\ gameMode' = mode
         /\ botCount' = n
         /\ game' = NewGame(mode, n, rpms, target)
         /\ gameState' = [phase |-> "playing", isWinner |-> FALSE,
                          playersAlive |-> IF mode = "arena" THEN n + 1
                                           ELSE IF mode = "duel" THEN 2 ELSE 1,
                          kills |-> 0]
  /\ isPaused' = FALSE
  /\ gameOver' = FALSE
  /\ obs' = [Obs("start") EXCEPT !.after = obs.after]
  /\ UNCHANGED <<pending, loop>>

\* restartGame
restartGame ==
  /\ Idle /\ pending = << >>
  /\ Playing
  /\ gameState.phase \in {"playing", "paused", "gameover"}
  /\ isPaused' = FALSE
  /\ gameOver' = FALSE
  /\ game' = NoGame
  /\ gameState' = [phase |-> "menu", isWinner |-> FALSE,
                   playersAlive |-> botCount + 1, kills |-> 0]
  /\ obs' = [Obs("restart") EXCEPT !.after = gameState.phase]
  /\ UNCHANGED <<pending, gameMode, botCount, loop>>

\* handlePause (Escape) and togglePause (the button); React renders the
\* update of a key or click event before the event returns.
togglePause ==
  /\ Idle /\ pending = << >>
  /\ gameState.phase \in {"playing", "paused"}
  /\ isPaused' = (gameState.phase = "playing")
  /\ gameState' = [gameState EXCEPT !.phase = IF gameState.phase = "playing"
                                             THEN "paused" ELSE "playing"]
  /\ obs' = Seen("pause")
  /\ UNCHANGED <<game, pending, gameOver, gameMode, botCount, loop>>

\* handlePause: the Escape key between two callbacks, also before React has
\* rendered the updates the last callback queued.  The handler reads the
\* phase of the last render (its effect is registered anew when the rendered
\* phase changes) and queues its updater behind them; React renders the
\* updater of one key event before it dispatches the next, so that no two
\* of them are queued at once.
handlePause ==
  /\ Idle
  /\ \A i \in 1..Len(pending) : pending[i].kind # "phase"
  /\ IF gameState.phase \in {"playing", "paused"}
     THEN /\ isPaused' = (gameState.phase = "playing")
          /\ pending' = Append(pending,
                               PhaseUpdate(IF gameState.phase = "playing"
                                           THEN "paused" ELSE "playing"))
     ELSE UNCHANGED <<isPaused, pending>>
  /\ obs' = Seen("escape")
  /\ UNCHANGED <<game, gameState, gameOver, gameMode, botCount, loop>>

\* ------------------------------------------------------------ key handlers
\* The RPM a valid spin press adds
spinGain(g) ==
  IF distToSafeZone(g, g.player.pos) > g.safeZone
  THEN OutsideGain(RPM_GAIN_PER_PRESS) ELSE RPM_GAIN_PER_PRESS

\* A faulty spin, which forgets the cap of 100
spinUncapped(g, k) ==
  IF g.lastSpinKey # k
  THEN [g EXCEPT !.currentRPM = g.currentRPM + spinGain(g),
                 !.lastSpinKey = k]
  ELSE g

\* A faulty spin, which forgets the alternation of the keys
spinAlways(g, k) ==
  [g EXCEPT !.currentRPM = Min(RPM_MAX, g.currentRPM + spinGain(g)),
            !.lastSpinKey = k]

\* if (game.lastSpinKey !== k) { ... }
spin(g, k) ==
  IF g.lastSpinKey # k
  THEN [g EXCEPT !.currentRPM = Min(RPM_MAX, g.currentRPM + spinGain(g)),
                 !.lastSpinKey = k]
  ELSE g

\* onKeyDown with e.key.toLowerCase() = k
keyDown(g, k) ==
  IF g.duelTransition THEN g
  ELSE LET g1 == IF k \in {"w", "a", "s", "d"}
                 THEN [g EXCEPT !.keys = @ \cup {k}] ELSE g
       IN IF k \in {"j", "k"} /\ g1.playerAlive THEN spin(g1, k) ELSE g1

\* The environment E presses keys only at the frames E.keyFrames and while
\* the RPM is at most E.pressBelow.
onKeyDown(E) ==
  /\ Idle /\ Playing /\ pending = << >>
  /\ game.frameCount \in E.keyFrames
  /\ game.currentRPM <= E.pressBelow
  /\ \E k \in E.keys :
       /\ game' = keyDown(game, k)
       /\ obs' = [Seen("keydown") EXCEPT !.key = k]
  /\ UNCHANGED <<gameState, pending, isPaused, gameOver, gameMode, botCount, loop>>

\* onKeyUp
onKeyUp(E) ==
  /\ Idle /\ Playing /\ pending = << >>
  /\ \E k \in E.upKeys :
       /\ game' = [game EXCEPT !.keys = @ \ {k}]
       /\ obs' = [Seen("keyup") EXCEPT !.key = k]
  /\ UNCHANGED <<gameState, pending, isPaused, gameOver, gameMode, botCount, loop>>

\* --------------------------------------------------- the animation callback
\* The number of fixed steps the while loop of a callback will run
stepsOwed(acc) == acc \div FIXED_DT

\* tick(timestamp) up to the while loop.  React has rendered the updates of
\* the previous callback before the browser runs the next one.  In the
\* environment E the key presses before the first frame of a session leave
\* the RPM in E.launchRpms.
tick(E) ==
  /\ Idle /\ Playing /\ pending = << >>
  /\ game.frameCount > 0 \/ game.currentRPM \in E.launchRpms
  /\ IF isPaused
     THEN /\ game' = [game EXCEPT !.lastTimestampSet = TRUE]
          /\ loop' = [active |-> FALSE, isGameOver |-> gameOver, steps |-> 0]
          /\ obs' = Seen("tickPaused")
     ELSE \E dt \in E.elapsed :
            LET raw == IF game.lastTimestampSet THEN dt ELSE 0
                elapsed == Min(raw, ELAPSED_CLAMP)
                acc == game.accumulator + elapsed
            IN /\ \/ gameOver
                  \/ game.frameCount + stepsOwed(acc) <= E.maxFrame
                  \/ game.duelTransition /\ game.duelTransitionTimer >= stepsOwed(acc)
               /\ game' = [game EXCEPT !.lastTimestampSet = TRUE, !.accumulator = acc]
               /\ loop' = [active |-> acc >= FIXED_DT, isGameOver |-> gameOver,
                           steps |-> 0]
               /\ obs' = [Seen("tick") EXCEPT !.elapsed = raw]
  /\ UNCHANGED <<gameState, pending, isPaused, gameOver, gameMode, botCount>>

\* while (game.accumulator >= FIXED_DT) { game.accumulator -= FIXED_DT; ...
\* loop.steps counts the iterations of the callback's loop.
owed(g) == [g EXCEPT !.accumulator = @ - FIXED_DT]

\* A faulty loop condition, which leaves a whole FIXED_DT in the accumulator
againAbove(g) ==
  [active |-> g.accumulator > FIXED_DT, isGameOver |-> loop.isGameOver,
   steps |-> loop.steps + 1]

again(g) ==
  [active |-> g.accumulator >= FIXED_DT, isGameOver |-> loop.isGameOver,
   steps |-> loop.steps + 1]

\* if (isGameOver) continue;
skipStep ==
  /\ loop.active /\ loop.isGameOver
  /\ game' = owed(game)
  /\ loop' = again(game')
  /\ obs' = Seen("skip")
  /\ UNCHANGED <<gameState, pending, isPaused, gameOver, gameMode, botCount>>

\* A faulty countdown, which takes two off the timer
frozenTwice(g) ==
  LET t == g.duelTransitionTimer - 2
  IN [g EXCEPT !.duelTransitionTimer = t,
               !.duelTransition = IF t <= 0 THEN FALSE ELSE @]

\* if (game.duelTransition) { timer--; if (timer <= 0) transition = false; continue; }
frozen(g) ==
  LET t == g.duelTransitionTimer - 1
  IN [g EXCEPT !.duelTransitionTimer = t,
               !.duelTransition = IF t <= 0 THEN FALSE ELSE @]

frozenStep ==
  /\ loop.active /\ ~loop.isGameOver
  /\ game.duelTransition
  /\ game' = frozen(owed(game))
  /\ loop' = again(game')
  /\ obs' = Seen("frozen")
  /\ UNCHANGED <<gameState, pending, isPaused, gameOver, gameMode, botCount>>

\* What the physics engine and Math.random() may hand one fixed step
botMoves(g, places) ==
  {f \in [1..Len(g.bots) -> places \cup {g.bots[i].pos : i \in 1..Len(g.bots)}] :
     \A i \in 1..Len(g.bots) :
       IF g.bots[i].alive THEN f[i] \in places ELSE f[i] = g.bots[i].pos}

\* The environment E lets bodies leave through a hole at the frames
\* E.exitFrames, reports collisions at the frames E.hitFrames, moves the
\* player between its places at the frames E.moveFrames (a bot is moved at
\* every frame), gives the player a velocity at the frames E.fastFrames and
\* lets bots spin at the frames E.spinFrames.
exits(E, g) == IF g.frameCount + 1 \in E.exitFrames THEN E.exits ELSE {}

stepInputs(E, g) ==
  {[ppos |-> pp, pvel |-> pv, bpos |-> bp,
    bvel |-> [i \in 1..Len(g.bots) |-> bv],
    pairs |-> ps, spin |-> sp, emergency |-> em,
    holeCos |-> r.holeCos, holeSin |-> r.holeSin, spawnRpm |-> r.spawnRpm,
    szCos |-> r.szCos, szSin |-> r.szSin, szPct |-> r.szPct,
    personality |-> r.personality] :
     pp \in (IF ~g.playerAlive THEN {g.player.pos}
             ELSE IF g.frameCount + 1 \in E.moveFrames
             THEN E.playerPlaces \cup exits(E, g)
             ELSE {g.player.pos} \cup exits(E, g)),
     pv \in (IF g.frameCount + 1 \in E.fastFrames THEN E.playerVels ELSE {ZeroVel}),
     bp \in botMoves(g, E.botPlaces \cup exits(E, g)),
     bv \in E.botVels,
     ps \in (IF g.frameCount + 1 \in E.hitFrames THEN E.pairLists ELSE {<< >>}),
     sp \in (IF g.frameCount + 1 \in E.spinFrames THEN E.spins ELSE {{}}),
     em \in (IF g.frameCount + 1 \in E.spinFrames THEN E.emergencies ELSE {{}}),
     r \in E.randoms}

\* The fixed step ended with every arena bot eliminated and the player alive
wonTick(s) ==
  s.game.gameMode = "arena" /\ s.aliveCount = 0 /\ s.game.playerAlive

\* One iteration of the while loop that runs the whole fixed step
fixedStep(E) ==
  /\ loop.active /\ ~loop.isGameOver
  /\ ~game.duelTransition
  /\ \E in \in stepInputs(E, game) :
       \E s \in {fixedStepBody([game |-> owed(game), gameOver |-> gameOver,
                                pending |-> pending, hits |-> << >>,
                                aliveCount |-> 0, reset |-> FALSE,
                                gravity |-> {}, ai |-> << >>,
                                shots |-> << >>], in)} :
          /\ game' = s.game
          /\ gameOver' = s.gameOver
          /\ pending' = s.pending
          /\ loop' = again(s.game)
          /\ obs' = [Obs("step") EXCEPT
                      !.hits = s.hits, !.reset = s.reset,
                      !.zero = zeroAlive(s.game), !.gravity = s.gravity,
                      !.ai = s.ai, !.shots = s.shots,
                      !.wonTick = obs.wonTick \/ wonTick(s)]
  /\ UNCHANGED <<gameState, isPaused, gameMode, botCount>>

\* ------------------------------------------------------------ environments
\* Places on the horizontal line through the arena centre
Inside == Pos(CX - 100 * DU, CY)        \* inside the initial safe zone
Near == Pos(CX + 100 * DU, CY)          \* inside the initial safe zone
Rough == Pos(CX + 370 * DU, CY)         \* in the arena, outside the safe zone
Gone == Pos(CX + 440 * DU, CY)          \* beyond ARENA_R + 50: through a hole
Still == ZeroVel
Fast == Pos(3 * DU, 4 * DU)             \* speed 5 px per step

Random0 == [holeCos |-> 1, holeSin |-> 0, spawnRpm |-> 55 * RU,
            szCos |-> 1, szSin |-> 0, szPct |-> 50, personality |-> 50]

\* Bounds of the arena specification
MaxFrame == 2
MaxSteps == 2

Elapsed(n) == {k * FIXED_DT : k \in 1..n}

ArenaEnv ==
  [modes |-> {"arena"}, botCounts |-> {1, 2},
   startRpms |-> {69 * RU},
   targets |-> {Pos(CX + 50 * DU, CY)},
   keys |-> {"j", "w"}, upKeys |-> {"w"},
   keyFrames |-> 0..MaxFrame,
   pressBelow |-> STARTING_RPM, launchRpms |-> 0..RPM_MAX,
   fastFrames |-> {},
   elapsed |-> Elapsed(MaxSteps),
   maxFrame |-> MaxFrame,
   playerPlaces |-> {Inside}, playerVels |-> {Still},
   botPlaces |-> {Near}, botVels |-> {Still},
   exits |-> {Gone}, exitFrames |-> 1..MaxFrame, hitFrames |-> 1..MaxFrame,
   moveFrames |-> 1..MaxFrame, spinFrames |-> 1..MaxFrame,
   pairLists |-> {<< >>, << <<PLAYER, 1>> >>, << <<2, 1>>, <<2, PLAYER>> >>,
                  << <<WALL, 1>> >>},
   spins |-> {{}, {1}},
   emergencies |-> {{}},
   randoms |-> {Random0}]

Next ==
  \/ startGame(ArenaEnv)
  \/ restartGame
  \/ togglePause
  \/ onKeyDown(ArenaEnv)
  \/ onKeyUp(ArenaEnv)
  \/ tick(ArenaEnv)
  \/ skipStep
  \/ fixedStep(ArenaEnv)
  \/ render

Spec == Init /\ [][Next]_vars

\* Bounds of the duel specification: its last frame, the steps of a
\* callback, and the last frames at which the boss may leave through a hole
\* and spin.
MaxDuelFrame == 4
MaxDuelSteps == 2

Close == Pos(CX + 130 * DU, CY)         \* 30 px from a boss at Near

DuelEnv ==
  [modes |-> {"duel"}, botCounts |-> {1},
   startRpms |-> {BOSS_RPM},
   targets |-> {Pos(CX + 50 * DU, CY)},
   keys |-> {"j", "k", "w"}, upKeys |-> {"w"},
   keyFrames |-> 0..MaxDuelFrame,
   pressBelow |-> STARTING_RPM + 2 * RPM_GAIN_PER_PRESS,
   launchRpms |-> 0..RPM_MAX,
   elapsed |-> Elapsed(MaxDuelSteps),
   maxFrame |-> MaxDuelFrame,
   playerPlaces |-> {Inside, Rough}, playerVels |-> {Still},
   fastFrames |-> {},
   botPlaces |-> {Near}, botVels |-> {Still},
   exits |-> {Gone}, exitFrames |-> 1..MaxDuelFrame,
   hitFrames |-> {1},
   moveFrames |-> {1},
   spinFrames |-> {},
   pairLists |-> {<< >>, << <<PLAYER, 1>> >>},
   spins |-> {{}},
   emergencies |-> {{}},
   randoms |-> {Random0}]

NextDuel ==
  \/ startGame(DuelEnv)
  \/ onKeyDown(DuelEnv)
  \/ onKeyUp(DuelEnv)
  \/ tick(DuelEnv)
  \/ skipStep
  \/ frozenStep
  \/ fixedStep(DuelEnv)
  \/ render

SpecDuel == Init /\ [][NextDuel]_vars

\* Bound of the long specification: its last frame.  Its callbacks run the
\* 12 fixed steps of a clamped 200 ms; collisions come at frames 1, 2 and
\* one chain window after frame 2 (in arena mode at the two frames after that
\* as well, which drain the bot below the floor), bodies leave at the frame
\* after the first
\* shrink of the safe zone (in duel mode also at the frame after that, which
\* begins round 3), bots spin at the frames after those.
MaxLongFrame == 180

LongEnv(mode) ==
  [modes |-> {mode}, botCounts |-> {1},
   startRpms |-> {50 * RU},
   targets |-> {Pos(CX + 50 * DU, CY)},
   keys |-> IF mode = "survival" THEN {"j", "k"} ELSE {"j"}, upKeys |-> {},
   keyFrames |-> {0},
   pressBelow |-> RPM_MAX,
   launchRpms |-> IF mode = "survival" THEN {RPM_MAX}
                  ELSE {STARTING_RPM + RPM_GAIN_PER_PRESS},
   elapsed |-> {ELAPSED_CLAMP},
   maxFrame |-> MaxLongFrame,
   playerPlaces |-> {Inside}, playerVels |-> {Still, Fast},
   fastFrames |-> IF mode = "duel" THEN {1, 2} ELSE {},
   botPlaces |-> {Near}, botVels |-> {Still},
   exits |-> {Gone},
   exitFrames |-> IF mode = "survival" THEN {}
                  ELSE IF mode = "duel" THEN {61, 62} ELSE {61},
   hitFrames |-> IF mode = "survival" THEN {}
                 ELSE IF mode = "duel" THEN {1, 2, 2 + BOT_CHAIN_WINDOW}
                 ELSE {1, 2} \cup {BOT_CHAIN_WINDOW + k : k \in 2..4},
   moveFrames |-> {},
   spinFrames |-> IF mode = "survival" THEN {} ELSE {3, 62, 63},
   pairLists |-> {<< <<PLAYER, 1>> >>},
   spins |-> IF mode = "duel" THEN {{}, {1}} ELSE {{}},
   emergencies |-> IF mode = "arena" THEN {{}, {1}} ELSE {{}},
   randoms |-> {Random0}]

LongNow == LongEnv(game.gameMode)

NextLong ==
  \/ startGame(LongEnv("arena"))
  \/ startGame(LongEnv("duel"))
  \/ startGame(LongEnv("survival"))
  \/ onKeyDown(LongNow)
  \/ tick(LongNow)
  \/ skipStep
  \/ frozenStep
  \/ fixedStep(LongNow)
  \/ render

SpecLong == Init /\ [][NextLong]_vars

\* Bound of the survival specification: its last frame.  The player launches
\* at 100 RPM and may spin again at frame 180; callbacks run 12 fixed steps;
\* bodies may leave through a hole at frame 355, inside the callback that
\* reaches frame 360.
MaxSurvivalFrame == 372

SurvivalEnv ==
  [modes |-> {"survival"}, botCounts |-> {1},
   startRpms |-> {55 * RU},
   targets |-> {Pos(CX + 50 * DU, CY)},
   keys |-> {"j", "k"}, upKeys |-> {},
   keyFrames |-> {0, SURVIVAL_SPAWN_INTERVAL},
   pressBelow |-> RPM_MAX,
   launchRpms |-> {RPM_MAX},
   elapsed |-> {ELAPSED_CLAMP},
   maxFrame |-> MaxSurvivalFrame,
   playerPlaces |-> {Inside}, playerVels |-> {Still},
   fastFrames |-> {},
   botPlaces |-> {Near}, botVels |-> {Still},
   exits |-> {Gone}, exitFrames |-> {2 * SURVIVAL_SPAWN_INTERVAL - 5},
   hitFrames |-> {},
   moveFrames |-> {},
   spinFrames |-> {},
   pairLists |-> {<< >>},
   spins |-> {{}},
   emergencies |-> {{}},
   randoms |-> {Random0}]

NextSurvival ==
  \/ startGame(SurvivalEnv)
  \/ onKeyDown(SurvivalEnv)
  \/ tick(SurvivalEnv)
  \/ skipStep
  \/ fixedStep(SurvivalEnv)
  \/ render

SpecSurvival == Init /\ [][NextSurvival]_vars

\* Bound of the AI specification: its last frame.  Two arena bots are moved
\* between four places off the horizontal axis: two inside the safe zone, 300
\* apart and 10 apart in x, side by side with a third, one beyond 85% of its
\* radius and one beside the right hole outside it; bot 1 and bot 2 collide
\* at both frames, so that one of them is drained below SWEET_LOW + 5.
MaxAIFrame == 2

North == Pos(CX, CY - 150 * DU)
South == Pos(CX + 10 * DU, CY + 150 * DU)
Beside == Pos(CX + 60 * DU, CY + 150 * DU)
Edge == Pos(CX + 230 * DU, CY + 230 * DU)

AIEnv ==
  [modes |-> {"arena"}, botCounts |-> {2},
   startRpms |-> {50 * RU, 69 * RU},
   targets |-> {Pos(CX + 50 * DU, CY)},
   keys |-> {"j"}, upKeys |-> {},
   keyFrames |-> {0},
   pressBelow |-> STARTING_RPM,
   launchRpms |-> {STARTING_RPM, STARTING_RPM + RPM_GAIN_PER_PRESS},
   elapsed |-> {FIXED_DT},
   maxFrame |-> MaxAIFrame,
   playerPlaces |-> {Inside}, playerVels |-> {Still},
   fastFrames |-> {},
   botPlaces |-> {North, South, Beside, Edge, Rough}, botVels |-> {Still},
   exits |-> {}, exitFrames |-> {},
   hitFrames |-> 1..MaxAIFrame,
   moveFrames |-> {1},
   spinFrames |-> {},
   pairLists |-> {<< >>, << <<1, 2>> >>},
   spins |-> {{}},
   emergencies |-> {{}},
   randoms |-> {Random0}]

NextAI ==
  \/ startGame(AIEnv)
  \/ onKeyDown(AIEnv)
  \/ tick(AIEnv)
  \/ fixedStep(AIEnv)
  \/ render

SpecAI == Init /\ [][NextAI]_vars

\* The zone boundary: the same two bots, moved between the same places, start
\* with an RPM of exactly SWEET_HIGH and collide at the first frame.
SweetEnv == [AIEnv EXCEPT !.startRpms = {SWEET_HIGH}]

NextSweet ==
  \/ startGame(SweetEnv)
  \/ onKeyDown(SweetEnv)
  \/ tick(SweetEnv)
  \/ fixedStep(SweetEnv)
  \/ render

SpecSweet == Init /\ [][NextSweet]_vars

\* Bound of the western specification: its last frame.  The boss leaves at
\* frame 1, so that round 2 and its lasers begin; from then on the player
\* moves across the western edge of the safe zone with the boss beside it,
\* and presses a spin key only with an RPM of 0.
MaxWestFrame == 38

InWest == Pos(CX - 300 * DU, CY)        \* inside the safe zone
OutWest == Pos(CX - 372 * DU, CY)       \* in the arena, outside the safe zone
BossWest == Pos(CX - 335 * DU, CY)      \* 35 px from InWest, at the edge

\* In arena mode two bots stay outside the safe zone and collide at frames
\* 1, 2, 3 and 30.
WestEnv(mode) ==
  [modes |-> {mode},
   botCounts |-> IF mode = "duel" THEN {1} ELSE {2},
   startRpms |-> IF mode = "duel" THEN {BOSS_RPM} ELSE {50 * RU, 69 * RU},
   targets |-> {Pos(CX + 50 * DU, CY)},
   keys |-> {"j"}, upKeys |-> {},
   keyFrames |-> 0..MaxWestFrame,
   pressBelow |-> 0,
   launchRpms |-> {STARTING_RPM},
   elapsed |-> {FIXED_DT, ELAPSED_CLAMP},
   maxFrame |-> MaxWestFrame,
   playerPlaces |-> IF mode = "duel" THEN {InWest, OutWest} ELSE {InWest},
   playerVels |-> {Still},
   fastFrames |-> {},
   botPlaces |-> IF mode = "duel" THEN {BossWest} ELSE {OutWest},
   botVels |-> {Still},
   exits |-> {Gone}, exitFrames |-> IF mode = "duel" THEN {1} ELSE {},
   hitFrames |-> IF mode = "duel" THEN {} ELSE {1, 2, 3, 30},
   moveFrames |-> 2..MaxWestFrame,
   spinFrames |-> {},
   pairLists |-> {<< >>, << <<1, 2>> >>},
   spins |-> {{}},
   emergencies |-> {{}},
   randoms |-> {Random0}]

WestNow == WestEnv(game.gameMode)

NextWest ==
  \/ startGame(WestEnv("duel"))
  \/ startGame(WestEnv("arena"))
  \/ onKeyDown(WestNow)
  \/ tick(WestNow)
  \/ skipStep
  \/ frozenStep
  \/ fixedStep(WestNow)
  \/ render

SpecWest == Init /\ [][NextWest]_vars

\* Bound of the clock specification: its last frame.  The host calls back
\* after 6 2/3 ms, 16 1/3 ms, 17 ms, 43 1/3 ms, 200 ms, 233 1/3 ms or 1 s;
\* the player may leave through a hole at frame 3, which ends the game.
MaxClockFrame == 30

ClockEnv ==
  [modes |-> {"arena"}, botCounts |-> {1},
   startRpms |-> {50 * RU},
   targets |-> {Pos(CX + 50 * DU, CY)},
   keys |-> {}, upKeys |-> {},
   keyFrames |-> {},
   pressBelow |-> 0,
   launchRpms |-> {STARTING_RPM},
   elapsed |-> {20, 49, 51, 130, ELAPSED_CLAMP, 700, 3000},
   maxFrame |-> MaxClockFrame,
   playerPlaces |-> {Inside}, playerVels |-> {Still},
   fastFrames |-> {},
   botPlaces |-> {Near}, botVels |-> {Still},
   exits |-> {Gone}, exitFrames |-> {3},
   hitFrames |-> {},
   moveFrames |-> {},
   spinFrames |-> {},
   pairLists |-> {<< >>},
   spins |-> {{}},
   emergencies |-> {{}},
   randoms |-> {Random0}]

NextClock ==
  \/ startGame(ClockEnv)
  \/ togglePause
  \/ tick(ClockEnv)
  \/ skipStep
  \/ fixedStep(ClockEnv)
  \/ render

SpecClock == Init /\ [][NextClock]_vars

\* Bound of the pause specification: its last frame.  The player or the bot
\* of an arena session may leave through a hole at any frame, which ends the
\* match; Escape and the pause button come between the callbacks, Escape
\* also before the updates of the last callback are rendered.
MaxPauseFrame == 3

PauseEnv ==
  [ClockEnv EXCEPT !.elapsed = Elapsed(2), !.maxFrame = MaxPauseFrame,
                   !.exitFrames = 1..MaxPauseFrame]

NextPause ==
  \/ startGame(PauseEnv)
  \/ restartGame
  \/ togglePause
  \/ handlePause
  \/ tick(PauseEnv)
  \/ skipStep
  \/ fixedStep(PauseEnv)
  \/ render

SpecPause == Init /\ [][NextPause]_vars

MaxShotFrame == 132

\* A duel that reaches round 3 at frame 2 and is then played until the first
\* laser has run out of life: the boss fires its first laser and bomb from
\* Rough at frame 12 and stays at Close (330 px from the player's start)
\* afterwards; the player spins up between the callbacks that end at frame 12
\* and the next one, and may step aside to North at frame 13.
ShotsEnv(frame) ==
  [modes |-> {"duel"}, botCounts |-> {1},
   startRpms |-> {BOSS_RPM},
   targets |-> {Pos(CX + 50 * DU, CY)},
   keys |-> {"j", "k"}, upKeys |-> {},
   keyFrames |-> {12},
   pressBelow |-> RPM_MAX,
   launchRpms |-> {STARTING_RPM},
   elapsed |-> {ELAPSED_CLAMP},
   maxFrame |-> MaxShotFrame,
   playerPlaces |-> {PlayerStart, North}, playerVels |-> {Still},
   fastFrames |-> {},
   botPlaces |-> IF frame < 12 THEN {Rough} ELSE {Close},
   botVels |-> {Still},
   exits |-> {Gone}, exitFrames |-> {1, 2},
   hitFrames |-> {},
   moveFrames |-> {13},
   spinFrames |-> {},
   pairLists |-> {<< >>},
   spins |-> {{}},
   emergencies |-> {{}},
   randoms |-> {Random0}]

ShotsNow == ShotsEnv(game.frameCount)

NextShots ==
  \/ startGame(ShotsEnv(0))
  \/ onKeyDown(ShotsNow)
  \/ tick(ShotsNow)
  \/ frozenStep
  \/ fixedStep(ShotsNow)
  \/ render

SpecShots == Init /\ [][NextShots]_vars

MaxZoneFrame == 2760
MaxShortFrame == 180

Touching == Pos(CX + 44 * DU, CY)       \* touching a player at the centre
RandomStill == [Random0 EXCEPT !.szPct = 0]

\* An arena match played until the safe zone has shrunk to nothing, and a
\* survival and a duel session of 180 frames: the zone stays at the centre,
\* where the player sits and keeps the spin up between 0 and 13 RPM; the one
\* bot sits beside the player and, once the zone has left it outside (frame
\* 2400), spins at every frame.
ZoneEnv(mode) ==
  [modes |-> {mode}, botCounts |-> {1},
   startRpms |-> IF mode = "duel" THEN {BOSS_RPM} ELSE {50 * RU},
   targets |-> {Centre},
   keys |-> {"j", "k"}, upKeys |-> {},
   keyFrames |-> 1..MaxZoneFrame,
   pressBelow |-> 10 * RU,
   launchRpms |-> {STARTING_RPM},
   elapsed |-> {ELAPSED_CLAMP},
   maxFrame |-> IF mode = "arena" THEN MaxZoneFrame ELSE MaxShortFrame,
   playerPlaces |-> {Centre}, playerVels |-> {Still},
   fastFrames |-> {},
   botPlaces |-> {Touching}, botVels |-> {Still},
   exits |-> {Gone}, exitFrames |-> {},
   hitFrames |-> {},
   moveFrames |-> {1},
   spinFrames |-> 2400..MaxZoneFrame,
   pairLists |-> {<< >>},
   spins |-> {{1}},
   emergencies |-> {{}},
   randoms |-> {RandomStill}]

ZoneNow == ZoneEnv(game.gameMode)

NextZone ==
  \/ startGame(ZoneEnv("arena"))
  \/ startGame(ZoneEnv("survival"))
  \/ startGame(ZoneEnv("duel"))
  \/ onKeyDown(ZoneNow)
  \/ tick(ZoneNow)
  \/ fixedStep(ZoneNow)
  \/ render

SpecZone == Init /\ [][NextZone]_vars

\* The arena matches of ArenaEnv and the survival sessions of SurvivalEnv,
\* one after the other in any order.
KillsNow == IF Playing /\ game.gameMode = "survival" THEN SurvivalEnv ELSE ArenaEnv

NextKills ==
  \/ startGame(ArenaEnv)
  \/ startGame(SurvivalEnv)
  \/ restartGame
  \/ onKeyDown(KillsNow)
  \/ tick(KillsNow)
  \/ skipStep
  \/ fixedStep(KillsNow)
  \/ render

SpecKills == Init /\ [][NextKills]_vars

\* ------------------------------------------------------------- properties
Rendered == Idle /\ pending = << >>
Hits == {obs.hits[i] : i \in 1..Len(obs.hits)}
Bots(g) == {g.bots[i] : i \in 1..Len(g.bots)}
PlayerHits == {h \in Hits : PLAYER \in {h.attacker, h.defender}}
BotHits == {h \in Hits : h.defender # PLAYER}
PlayerRpmAt(h) == IF h.attacker = PLAYER THEN h.attackerRPM ELSE h.defenderRPM
BotRpmAt(h) == IF h.attacker = PLAYER THEN h.defenderRPM ELSE h.attackerRPM

InsideZone(g) == distToSafeZone(g, g.player.pos) <= g.safeZone
SpinKey(ev) == ev.ev = "keydown" /\ ev.key \in {"j", "k"}

\* The RPM a J/K press with key k is to leave a player inside the zone with
Alternated(g, k) ==
  IF k # g.lastSpinKey THEN Min(RPM_MAX, g.currentRPM + RPM_GAIN_PER_PRESS)
  ELSE g.currentRPM

\* C2 (as stated): every J/K key-down delivered to a live player inside the
\* safe zone adds the per-press gain, capped at 100, when its key differs
\* from the previously accepted spin key, and nothing when it repeats it.
C2_AlternationAlways ==
  [][SpinKey(obs') /\ game.playerAlive /\ InsideZone(game) =>
       game'.currentRPM = Alternated(game, obs'.key)]_vars

\* C2 (amended): outside a duel round transition, every J/K key-down
\* delivered to a live player inside the safe zone adds the per-press gain,
\* capped at 100, when its key differs from the previously accepted spin
\* key, which it then becomes, and nothing when it repeats it; during a duel
\* round transition a key-down changes nothing.
C2_Alternation ==
  [][/\ SpinKey(obs') /\ game.playerAlive /\ InsideZone(game)
        /\ ~game.duelTransition =>
          /\ game'.currentRPM = Alternated(game, obs'.key)
          /\ game'.lastSpinKey = obs'.key
     /\ obs'.ev = "keydown" /\ game.duelTransition => game' = game]_vars

\* J, K, J (or K, J, K) before the first frame: three gains
C2_ThreeGains ==
  /\ obs.ev = "keydown" /\ Playing
  /\ game.frameCount = 0
  /\ game.currentRPM = STARTING_RPM + 3 * RPM_GAIN_PER_PRESS

\* The parts of C4
C4_RoundRange ==
  Playing /\ game.gameMode = "duel" =>
    /\ game.duelRound \in 1..DUEL_LAST_ROUND
    /\ obs.ev = "start" => game.duelRound = 1

C4_RoundStep ==
  Playing /\ Playing' /\ game.gameMode = "duel" /\ obs'.ev # "start" =>
    IF game'.kills # game.kills
    THEN IF game.duelRound < DUEL_LAST_ROUND
         THEN /\ game'.duelRound = game.duelRound + 1
              /\ game'.bots[1].alive /\ obs'.reset
         ELSE /\ game'.duelRound = game.duelRound
              /\ ~game'.bots[1].alive /\ ~obs'.reset /\ gameOver'
    ELSE game'.duelRound = game.duelRound /\ ~obs'.reset

C4_VictoryAfterLastRound ==
  Playing /\ game.gameMode = "duel" /\ ~game.bots[1].alive /\ Rendered =>
    gameState.phase = "gameover" /\ gameState.isWinner

\* C4: in Duel mode the round counter starts at 1, stays within 1..3 and
\* goes up by exactly one each time the boss is eliminated in round 1 or 2,
\* the boss being revived; a boss elimination in round 3 ends the match as a
\* player victory with no further reset and no further round increment.
C4_DuelRounds ==
  /\ []C4_RoundRange
  /\ [][C4_RoundStep]_vars
  /\ []C4_VictoryAfterLastRound

\* What a round transition is to leave alone: all of the game object but the
\* countdown (and the accumulator the loop consumes)
Frozen(g) ==
  [g EXCEPT !.duelTransitionTimer = 0, !.duelTransition = FALSE,
            !.accumulator = 0]

C10_Countdown ==
  Playing /\ game.duelTransition =>
    game.duelTransitionTimer \in 1..DUEL_ROUND_TRANSITION_FRAMES

C10_FrozenStep ==
  /\ obs'.reset =>
       /\ game'.duelTransition
       /\ game'.duelTransitionTimer = DUEL_ROUND_TRANSITION_FRAMES
  /\ Playing /\ game.duelTransition /\ obs'.ev \in {"frozen", "step"} =>
       /\ obs'.ev = "frozen"
       /\ game'.duelTransitionTimer = game.duelTransitionTimer - 1
       /\ game'.duelTransition = (game'.duelTransitionTimer > 0)
       /\ Frozen(game') = Frozen(game)
  /\ Playing /\ ~game.duelTransition => obs'.ev # "frozen"

\* C10: a duel round reset starts a countdown of 180; each of the next 180
\* fixed steps that run only takes one off the countdown, leaving the frame
\* counter, the RPMs, the safe zone, the entities and the projectiles as
\* they are; the countdown ends the transition when it reaches 0, and the
\* fixed steps after that are normal ones.
C10_TransitionFreeze ==
  /\ []C10_Countdown
  /\ [][C10_FrozenStep]_vars

\* A normal fixed step of round 2 or 3 after the countdown has run out
C10_Resumed ==
  /\ Playing /\ obs.ev = "step" /\ ~obs.reset
  /\ game.duelRound >= 2 /\ game.duelTransitionTimer = 0

\* C1: the player's RPM and the RPM of every bot and boss lie in [0, 100].
C1_RpmInRange ==
  Playing =>
    /\ game.currentRPM \in 0..RPM_MAX
    /\ \A b \in Bots(game) : b.rpm \in 0..RPM_MAX

\* A fixed step in which the boss was hit for more than the RPM it had (and
\* so was eliminated and revived for the next round)
C1_DrainedToZero ==
  /\ Playing /\ game.gameMode = "duel" /\ obs.reset
  /\ \E h \in BotHits : h.drain > h.defenderRPM

\* C7 (radius part): the safe-zone radius is never negative.
C7_RadiusNotNegative == Playing => game.safeZone >= 0

\* C7 (step part): no step of a session increases the safe-zone radius but
\* a fixed step that resets the duel round, which sets it to the initial
\* radius.
C7_RadiusStep ==
  Playing /\ Playing' /\ obs'.ev # "start" =>
    IF obs'.reset THEN game'.safeZone = SAFE_ZONE_INITIAL
    ELSE game'.safeZone <= game.safeZone

\* C7: across consecutive ticks the safe-zone radius does not increase, and
\* it is never negative; only the duel round reset may increase it, setting
\* it back to the initial radius.
C7_SafeZoneShrinks ==
  /\ []C7_RadiusNotNegative
  /\ [][C7_RadiusStep]_vars

\* A duel round reset that took a shrunk safe zone back to the initial radius
C7_ResetAfterShrink ==
  /\ Playing /\ obs.reset
  /\ game.frameCount > 60
  /\ game.safeZone = SAFE_ZONE_INITIAL

InWindow(h) == h.sinceLast < BOT_CHAIN_WINDOW

\* C8 (as stated): a hit on a bot fewer than 120 frames after the bot's
\* previous hit drains 5 + 5 (chainHits - 1), strictly more than the
\* previous hit did, and a hit after the window drains the base amount 5.
C8_ChainDrain ==
  \A h \in BotHits :
    IF InWindow(h)
    THEN /\ h.drain = CHAIN_BASE + CHAIN_STEP * (h.chainHits - 1)
         /\ h.drain > h.prevDrain
    ELSE h.drain = CHAIN_BASE

\* C8 (amended): apart from the momentum bonus of a duel-mode hit by the
\* player, a hit on a bot fewer than 120 frames after the bot's previous hit
\* drains 5 + 5 (chainHits - 1) with chainHits one more than at the previous
\* hit, and a hit after the window drains the base amount 5; where no hit
\* carries a momentum bonus (outside Duel mode) each hit inside the window
\* drains strictly more than the previous one.
C8_ChainDrainNetOfMomentum ==
  \A h \in BotHits :
    /\ IF InWindow(h)
       THEN h.drain - h.momentum = CHAIN_BASE + CHAIN_STEP * (h.chainHits - 1)
       ELSE h.drain - h.momentum = CHAIN_BASE /\ h.chainHits = 1
    /\ Playing /\ game.gameMode # "duel" =>
         /\ h.momentum = 0
         /\ InWindow(h) => h.drain > h.prevDrain

\* An Arena hit after the chain window of a bot whose previous hit was a
\* second chain hit
C8_WindowElapsed ==
  /\ Playing /\ game.gameMode = "arena"
  /\ \E h \in BotHits : ~InWindow(h) /\ h.prevDrain = CHAIN_BASE + CHAIN_STEP
                        /\ h.drain = CHAIN_BASE

\* C3: in Arena mode, once a fixed step has ended with every bot eliminated
\* and the player alive, the rendered phase is gameover with isWinner = true;
\* and victory is never shown in Arena mode while a bot is alive.
C3_ArenaVictoryAtOnce ==
  Playing /\ game.gameMode = "arena" =>
    /\ obs.wonTick /\ Rendered =>
         gameState.phase = "gameover" /\ gameState.isWinner
    /\ gameState.phase = "gameover" /\ gameState.isWinner =>
         \A b \in Bots(game) : ~b.alive

\* C5: in every collision of two live entities the attacker is the one with
\* the higher RPM and the defender, who takes the knockback along the
\* attacker->defender direction, the one with the lower RPM, whichever of
\* them is the player.
C5_HigherRpmAttacks ==
  \A h \in Hits : h.attackerRPM >= h.defenderRPM

\* C6: a collision of the player with a bot or boss of higher RPM drains the
\* player by 10 + (attackerRPM - playerRPM) * 0.08, times 3 when the
\* attacker is the duel boss.
C6_StrongerBotDrainsPlayer ==
  \A h \in PlayerHits :
    BotRpmAt(h) > PlayerRpmAt(h) =>
      /\ h.defender = PLAYER
      /\ h.drain = (10 * RU + ((BotRpmAt(h) - PlayerRpmAt(h)) * 8) \div 100)
                   * (IF game.gameMode = "duel" THEN DUEL_COLLISION_MULT ELSE 1)

\* The core state a pause is to freeze
Core(g) ==
  [frameCount |-> g.frameCount, currentRPM |-> g.currentRPM,
   playerAlive |-> g.playerAlive,
   bots |-> [i \in 1..Len(g.bots) |-> [rpm |-> g.bots[i].rpm,
                                       alive |-> g.bots[i].alive]],
   safeZone |-> g.safeZone, safeZoneCX |-> g.safeZoneCX,
   safeZoneCY |-> g.safeZoneCY,
   duelLasers |-> g.duelLasers, duelBombs |-> g.duelBombs]

\* C9: while the session is paused no step changes the frame counter, the
\* RPMs, the safe zone, the alive flags or the projectiles, whatever key
\* events arrive.
C9_PauseFreezesCore ==
  [][isPaused /\ isPaused' /\ Playing /\ Playing' => Core(game)' = Core(game)]_vars

\* The part of C11 about the RPM, the safe zone and the bodies
C11_ResetPlaces ==
  Playing /\ game.duelTransition =>
    /\ game.currentRPM = STARTING_RPM
    /\ game.safeZone = SAFE_ZONE_INITIAL
    /\ game.safeZoneCX = CX /\ game.safeZoneCY = CY
    /\ game.player = [pos |-> PlayerStart, vel |-> ZeroVel]
    /\ game.bots[1].pos = BossStart /\ game.bots[1].vel = ZeroVel

\* C11: from the end of the fixed step that begins a duel round transition
\* and throughout the transition, the player's RPM is STARTING_RPM, the safe
\* zone has its initial radius and centre, player and boss are at their
\* start positions with zero velocity, and there are no lasers and no bombs.
C11_TransitionState ==
  /\ C11_ResetPlaces
  /\ Playing /\ game.duelTransition =>
       game.duelLasers = << >> /\ game.duelBombs = << >>

\* Entity e is out of the game after a fixed step: eliminated, or, for the
\* duel boss before the last round, eliminated and revived by the round reset
Eliminated(e) ==
  IF e = PLAYER THEN ~game.playerAlive
  ELSE ~game.bots[e].alive \/ obs.reset

\* C12: an entity that a fixed step leaves alive with an RPM of 0 is
\* eliminated by the end of the next fixed step, whatever key events arrive
\* between the two steps.
C12_ZeroEliminatedNextTick ==
  [][obs'.ev = "step" => \A e \in obs.zero : Eliminated(e)']_vars

\* The eliminated entities of the game
Dead(g) ==
  (IF g.playerAlive THEN {} ELSE {PLAYER})
  \cup {i \in 1..Len(g.bots) : ~g.bots[i].alive}

\* C13: a fixed step applies no gravity force to an entity eliminated before
\* it, and resolves no collision of that entity's body: no drain, chain hit
\* or knockback comes from it.
C13_EliminatedTakesNoPart ==
  [][obs'.ev = "step" =>
       \A e \in Dead(game) :
         /\ e \notin obs'.gravity
         /\ \A h \in Hits' : e \notin {h.attacker, h.defender}]_vars

\* The match has just been started, after a restart that left a session in
\* the phase obs.after
Restarted == obs.ev = "start" /\ obs.after # ""

\* C14: the session started after a restart has tick counter 0, the player at
\* STARTING_RPM, the initial safe-zone radius, duel round 1, no projectiles,
\* no kills, no last spin key, no pending round transition, and is neither
\* paused nor over, whatever the previous session was.
C14_FreshSession ==
  Restarted =>
    /\ game.frameCount = 0 /\ game.accumulator = 0
    /\ game.currentRPM = STARTING_RPM
    /\ game.safeZone = SAFE_ZONE_INITIAL
    /\ game.duelRound = 1
    /\ game.duelLasers = << >> /\ game.duelBombs = << >>
    /\ game.kills = 0 /\ gameState.kills = 0
    /\ game.lastSpinKey = ""
    /\ ~game.duelTransition
    /\ ~isPaused /\ gameState.phase = "playing"
    /\ ~gameOver /\ game.playerAlive
    /\ pending = << >> /\ ~loop.active

\* A session that ended with the game over was restarted
C14_AfterGameOver == Restarted /\ obs.after = "gameover"

\* The events between two fixed steps of a session
BetweenTicks == {"keydown", "keyup", "pause", "render", "tick", "tickPaused"}

\* C15: no event between two fixed steps changes the player's RPM: a spin key
\* press is only recorded, and its gain comes with the next fixed step.
C15_RpmConstantBetweenTicks ==
  [][Playing /\ game.frameCount > 0 /\ obs'.ev \in BetweenTicks =>
       game'.currentRPM = game.currentRPM]_vars

\* C16: a key-down during a duel round transition changes neither the
\* player's RPM nor the player's body, and a movement key is recorded in the
\* raw key-state set.
C16_KeysDuringTransition ==
  [][Playing /\ game.duelTransition /\ obs'.ev = "keydown" =>
       /\ game'.currentRPM = game.currentRPM
       /\ game'.player = game.player
       /\ obs'.key \in {"w", "a", "s", "d"} => obs'.key \in game'.keys]_vars

\* The iterations of the callback's while loop
LoopSteps == {"step", "skip", "frozen"}

\* C17: an unpaused callback adds min(elapsed, 200 ms) to the accumulator;
\* every iteration of its loop takes one whole FIXED_DT that the accumulator
\* holds; when the callback is over the accumulator is in [0, FIXED_DT); and
\* no callback runs more than 12 iterations.
C17_Accumulator ==
  [][Playing /\ Playing' =>
       /\ obs'.ev = "tick" =>
            game'.accumulator = game.accumulator + Min(obs'.elapsed, ELAPSED_CLAMP)
       /\ obs'.ev \in LoopSteps =>
            /\ game.accumulator >= FIXED_DT
            /\ game'.accumulator = game.accumulator - FIXED_DT
            /\ loop'.steps = loop.steps + 1
       /\ Idle' => 0 <= game'.accumulator /\ game'.accumulator < FIXED_DT
       /\ loop'.steps <= 12]_vars

\* The RPM an entity loses in one tick inside the safe zone, and the factor
\* of the loss outside it
PlayerDecayInside == (4 * RU) \div 10
BotDecayInside == (14 * RU) \div 100
DecayFactor(outside) == IF outside THEN 4 ELSE 1

\* The boss of a duel is outside the safe zone, as its decay sees it
BossOutside(g) == distToSafeZone(g, g.bots[1].pos) > g.safeZone

ForceAt(h, rpm) == knockback(rpm, h.defenderRPM, h.relSpeed, h.boss)

\* C19: with the defender's RPM, the closing speed and the roles of a
\* collision fixed, the knockback grows strictly with the attacker's RPM:
\* from each whole RPM of 0..99 to the next, and from any of them below the
\* attacker's RPM to the force applied and on to any above.
C19_KnockbackIncreasing ==
  \A h \in Hits :
    /\ h.force = ForceAt(h, h.attackerRPM)
    /\ \A k \in 0..99 : ForceAt(h, k * RU) < ForceAt(h, (k + 1) * RU)
    /\ \A k \in 0..100 :
         /\ k * RU < h.attackerRPM => ForceAt(h, k * RU) < h.force
         /\ k * RU > h.attackerRPM => ForceAt(h, k * RU) > h.force

\* A collision whose attacker is over-spinning
C19_OverSpinHit == \E h \in Hits : h.attackerRPM >= SWEET_HIGH /\ h.recoil

\* The collisions of two live bots whose RPMs differ
BotBotHits ==
  {h \in Hits : h.attacker # PLAYER /\ h.defender # PLAYER
                /\ h.attackerRPM # h.defenderRPM}

\* C20 as stated: in a collision of two live bots with different RPMs the
\* bot with the lower RPM loses at least 5 RPM and the bot with the higher
\* RPM keeps its RPM and its chain-hit state.
C20_LowerBotLosesFive ==
  \A h \in BotBotHits :
    /\ h.defenderRPM < h.attackerRPM
    /\ h.defenderRPM - h.defenderAfter >= 5 * RU
    /\ h.attackerKept

\* C20: in a collision of two live bots with different RPMs the bot with
\* the lower RPM loses at least 5 RPM, or all of its RPM if it has less than
\* 5, and the bot with the higher RPM keeps its RPM and its chain-hit state.
C20_LowerBotLosesFiveOrAll ==
  \A h \in BotBotHits :
    /\ h.defenderRPM < h.attackerRPM
    /\ \/ h.defenderRPM - h.defenderAfter >= 5 * RU
       \/ h.defenderRPM < 5 * RU /\ h.defenderAfter = 0
    /\ h.attackerKept

\* A bot with less than 5 RPM has been hit by a bot with more
C20_WeakBotHit == \E h \in BotBotHits : h.defenderRPM < 5 * RU

\* A callback that came after more than 200 ms has run 12 fixed steps and
\* left a part of a FIXED_DT in the accumulator
C17_TwelveSteps ==
  /\ Playing /\ Idle /\ obs.ev = "step"
  /\ loop.steps = 12 /\ game.accumulator > 0

\* The session is a survival session
Survival(g) == g # NoGame /\ g.gameMode = "survival"

\* C21: a survival session begins without bots; while the player is alive
\* the bots spawned after t fixed steps number t div 180; and no step
\* spawns a bot once the player has been eliminated.
C21_SurvivalSpawns ==
  [][Survival(game') =>
       /\ game'.botSpawnIndex = Len(game'.bots)
       /\ game'.playerAlive =>
            Len(game'.bots) = game'.frameCount \div 180
       /\ Survival(game) /\ ~game.playerAlive =>
            Len(game'.bots) = Len(game.bots)]_vars

\* The fixed step from game to game' fired the weapon whose last firing
\* frame is last(g), in a round from `round` on, at least 12 frames after the
\* firing before, with the boss and the player alive
Fired(last(_)) == last(game') # last(game)

FiredWell(last(_), round) ==
  /\ game'.gameMode = "duel" /\ game'.duelRound >= round
  /\ last(game') = game'.frameCount
  /\ last(game') - last(game) >= 12
  /\ game'.playerAlive /\ game'.bots[1].alive

LastLaser(g) == g.lastLaserFrame
LastBomb(g) == g.lastBombFrame

\* C22: there is no laser in round 1 and no bomb before round 3; a laser is
\* fired only in a round from 2 on and a bomb only in round 3, each at least
\* 12 ticks after the one before and with the boss and the player alive.
C22_Weapons ==
  [][Playing' =>
       /\ game'.duelRound = 1 => game'.duelLasers = << >>
       /\ game'.duelRound < 3 => game'.duelBombs = << >>
       /\ Playing /\ obs'.ev = "step" =>
            /\ Fired(LastLaser) => FiredWell(LastLaser, 2)
            /\ Fired(LastBomb) => FiredWell(LastBomb, 3)
            /\ Len(game'.duelLasers) > Len(game.duelLasers) => Fired(LastLaser)
            /\ Len(game'.duelBombs) > Len(game.duelBombs) => Fired(LastBomb)]_vars

\* Round 3 with a laser and a bomb in flight
C22_BothWeapons ==
  Playing /\ game.duelRound = 3
  /\ game.duelLasers # << >> /\ game.duelBombs # << >>

\* The match is shown as over
Over == gameState.phase = "gameover"

\* C23: while the match is shown as over, the outcome shown (isWinner) stays
\* what it was when the game-over was first shown, whatever callbacks, fixed
\* steps and key events follow, until the restart leaves the phase.
C23_OutcomeStable ==
  [][Over /\ Over' => gameState'.isWinner = gameState.isWinner]_vars

\* A callback runs its loop while a victory is shown
C23_CallbackAfterVictory ==
  Over /\ gameState.isWinner /\ obs.ev = "skip"

\* C24: whenever a victory is shown the player is alive; so a callback in
\* which both the player and the last opponent are eliminated ends in defeat.
C24_VictoryOnlyAlive ==
  Playing /\ Over /\ gameState.isWinner => game.playerAlive

\* What a finished match is to keep
Session(g) ==
  [frameCount |-> g.frameCount, currentRPM |-> g.currentRPM,
   playerAlive |-> g.playerAlive,
   rpm |-> [i \in 1..Len(g.bots) |-> g.bots[i].rpm],
   alive |-> [i \in 1..Len(g.bots) |-> g.bots[i].alive],
   kills |-> g.kills, duelRound |-> g.duelRound,
   safeZone |-> <<g.safeZone, g.safeZoneCX, g.safeZoneCY>>,
   duelLasers |-> g.duelLasers, duelBombs |-> g.duelBombs]

\* C25: an iteration of the fixed-step loop that begins with the match over
\* (the player eliminated, or gameOverRef set by a victory) leaves the frame
\* counter, RPMs, alive flags, kills, duel round, safe zone and projectiles
\* as they were.
C25_OverIsFinal ==
  [][Playing /\ (gameOver \/ ~game.playerAlive)
     /\ obs'.ev \in {"step", "frozen", "skip"} =>
       Session(game') = Session(game)]_vars

\* C26: a collision gives the attacker the over-spin bonus and the
\* self-recoil exactly when the attacker's RPM is strictly above SWEET_HIGH;
\* an attacker at exactly SWEET_HIGH gets neither.
C26_OverSpinAboveHigh ==
  \A h \in Hits : h.recoil <=> h.attackerRPM > SWEET_HIGH

\* C27: the recoil of an attacker is half of the knockback the defender of
\* that collision takes, all multipliers applied (to the rounding of the
\* force unit).
C27_RecoilHalfOfKnockback ==
  \A h \in Hits : h.recoil => Abs(2 * h.recoilForce - h.force) <= 2

\* What the AI of the live bots did in the last fixed step
Thoughts == {obs.ai[k] : k \in 1..Len(obs.ai)}

\* The Euclidean distance of bot a.bot to the point its force heads for
Reach(a) ==
  Hypot(a.toward.x - game.bots[a.bot].pos.x, a.toward.y - game.bots[a.bot].pos.y)

\* C28: the target of a chasing bot is alive, has an RPM at least
\* MIN_RPM_ADVANTAGE below the bot's and is at a Euclidean distance below 200
\* from it.
C28_ChaseTarget ==
  \A a \in Thoughts :
    a.intent = "chase" =>
      /\ a.targetAlive
      /\ a.targetRPM + MIN_RPM_ADVANTAGE <= a.rpm
      /\ Reach(a) < 200 * DU

\* Bot o was alive when the AI of bot i ran in the fixed step from game to
\* game': the bot loop had been through the bots before i only
AliveThen(i, o) ==
  IF o < i \/ o > Len(game.bots) THEN game'.bots[o].alive ELSE game.bots[o].alive

\* Bot i had a live bot closer than BOT_SEPARATION_RADIUS, not on top of it
Crowded(i) ==
  \E o \in 1..Len(game'.bots) \ {i} :
    /\ AliveThen(i, o)
    /\ Hypot(game'.bots[o].pos.x - game'.bots[i].pos.x,
             game'.bots[o].pos.y - game'.bots[i].pos.y)
         \in 1..(BOT_SEPARATION_RADIUS - 1)

\* Bot i is outside the safe zone or beyond 85% of its radius
AtEdge(g, i) ==
  \/ distToSafeZone(g, g.bots[i].pos) > g.safeZone
  \/ distToSafeZone(g, g.bots[i].pos) * 100 > g.safeZone * 85

ManagedInside(i) ==
  /\ game'.bots[i].alive /\ ~obs'.reset
  /\ distToSafeZone(game', game'.bots[i].pos) <= game'.safeZone

\* The RPM the boss has after a fixed step without a collision, inside the
\* safe zone: the decay and at most the regular spin
BossRpmAfter(rpm) ==
  {Max(0, rpm - BOT_DECAY_PER_FRAME),
   botGain(Max(0, rpm - BOT_DECAY_PER_FRAME), DUEL_BOSS_SPIN_GAIN)}

\* C30: a fixed step leaves every live bot of arena and survival that is
\* inside the safe zone with an RPM of at least BOT_RPM_FLOOR_INSIDE; the duel
\* boss gets neither floor nor passive regeneration: inside the zone a step
\* without a collision leaves it with its RPM less the decay, plus at most
\* the regular spin, below the floor too.
C30_FloorInside ==
  [][obs'.ev = "step" =>
       \A i \in 1..Len(game'.bots) :
         ManagedInside(i) =>
           IF game'.gameMode = "duel"
           THEN obs'.hits = << >> => game'.bots[i].rpm \in BossRpmAfter(game.bots[i].rpm)
           ELSE game'.bots[i].rpm >= BOT_RPM_FLOOR_INSIDE]_vars

\* A bot inside the safe zone was drained below the floor by a collision of
\* the last fixed step, which left it at the floor
C30_LiftedToFloor ==
  /\ Playing /\ game.gameMode # "duel"
  /\ \E h \in BotHits :
       /\ h.frame = game.frameCount
       /\ h.defenderAfter \in 1..(BOT_RPM_FLOOR_INSIDE - 1)
       /\ game.bots[h.defender].alive
       /\ game.bots[h.defender].rpm = BOT_RPM_FLOOR_INSIDE

\* C31: a collision on a bot that comes less than BOT_COLLISION_COOLDOWN
\* frames after the bot's previous collision (in the same fixed step too)
\* does not raise its chain-hit counter.
C31_ChainCooldown ==
  \A h \in BotHits :
    h.sinceLast < BOT_COLLISION_COOLDOWN => h.chainHits <= h.chainBefore

\* C32: a duel round reset clears the combat memory of the boss: whatever
\* frame of the new round its first collision comes at, the handler counts
\* it as chain level 1 and drains the chain base (plus the momentum bonus).
C32_RoundResetClearsChain ==
  [][obs'.ev = "step" /\ obs'.reset =>
       \A f \in 1..BOT_CHAIN_WINDOW :
         LET g == [game' EXCEPT !.frameCount = @ + f]
         IN /\ ChainHitsAfter(g, g.bots[1]) = 1
            /\ chainDrain(g, [attacker |-> WALL, defender |-> 1]) = CHAIN_BASE]_vars

\* The moves of the UI phase: menu -> playing, playing <-> paused,
\* playing -> gameover, any phase -> menu, and no move
PhaseEdges ==
  {<<"menu", "playing">>, <<"playing", "paused">>, <<"paused", "playing">>,
   <<"playing", "gameover">>}
  \cup {<<p, q>> \in {"menu", "playing", "paused", "gameover"} \X
                     {"menu", "playing", "paused", "gameover"} :
          q = "menu" \/ p = q}

RECURSIVE phaseMoves(_, _)
\* Every queued update moves the phase it is handed along an edge
phaseMoves(r, us) ==
  IF us = << >> THEN TRUE
  ELSE /\ <<r.gs.phase, applyUpdate(r, Head(us)).gs.phase>> \in PhaseEdges
       /\ phaseMoves(applyUpdate(r, Head(us)), Tail(us))

\* C33: the rendered phase moves only along menu -> playing, playing <->
\* paused, playing -> gameover and any phase -> menu, a pause request in menu
\* or gameover changes nothing, and no queued update turns the gameover an
\* earlier update of the queue produced back into paused or playing.
C33_PhaseMoves ==
  [][/\ <<gameState.phase, gameState'.phase>> \in PhaseEdges
     /\ obs'.ev \in {"pause", "escape"} /\ gameState.phase \in {"menu", "gameover"}
          => UNCHANGED <<game, gameState, pending, isPaused, gameOver>>
     /\ phaseMoves([gs |-> gameState, over |-> gameOver], pending)]_vars

\* A fixed step of a duel in which the projectiles were updated: the player
\* is still alive after it and no round began.
WeaponsUpdated ==
  obs'.ev = "step" /\ game'.gameMode = "duel" /\ game'.playerAlive /\ ~obs'.reset

\* Laser m is laser l one update later.
agedLaser(l, m) ==
  m = [l EXCEPT !.x = l.x + l.vx, !.y = l.y + l.vy, !.life = l.life - 1]

\* Bomb c is bomb b one update later: flying, detonating, or fading.
agedBomb(b, c) ==
  IF b.exploded
  THEN c = [b EXCEPT !.explodeTimer = b.explodeTimer - 1]
  ELSE /\ c.x = b.x + b.vx /\ c.y = b.y + b.vy /\ c.timer = b.timer - 1
       /\ c.exploded = (c.timer <= 0)
       /\ c.explodeTimer = IF c.exploded THEN BOMB_EXPLODE_FRAMES ELSE 0

\* The lasers after an update: each has between 1 and 119 updates left, is
\* on the canvas and away from the player, and is a laser of the list before
\* one update later or the laser fired in this step.
LasersRunOut ==
  \A j \in 1..Len(game'.duelLasers) :
    LET m == game'.duelLasers[j]
    IN /\ m.life \in 1..(DUEL_LASER_LIFE - 1)
       /\ m.x \in 0..(CANVAS_W * DU) /\ m.y \in 0..(CANVAS_H * DU)
       /\ Hypot(m.x - game'.player.pos.x, m.y - game'.player.pos.y) >= PLAYER_R + 6 * DU
       /\ \/ \E i \in 1..Len(game.duelLasers) : agedLaser(game.duelLasers[i], m)
          \/ /\ j = Len(game'.duelLasers)
             /\ game'.lastLaserFrame = game'.frameCount
             /\ m.life = DUEL_LASER_LIFE - 1

\* The bombs after an update: a flying bomb has a countdown of at least 1, a
\* detonated one between 1 and 20 updates left, and each is a bomb of the list
\* before one update later or the bomb thrown in this step.
BombsRunOut ==
  \A j \in 1..Len(game'.duelBombs) :
    LET c == game'.duelBombs[j]
    IN /\ IF c.exploded THEN c.explodeTimer \in 1..BOMB_EXPLODE_FRAMES
          ELSE c.timer >= 1
       /\ \/ \E i \in 1..Len(game.duelBombs) : agedBomb(game.duelBombs[i], c)
          \/ /\ j = Len(game'.duelBombs)
             /\ game'.lastBombFrame = game'.frameCount
             /\ ~c.exploded

\* The bombs that detonated in this step
Detonated ==
  {j \in 1..Len(game'.duelBombs) :
     game'.duelBombs[j].exploded
     /\ game'.duelBombs[j].explodeTimer = BOMB_EXPLODE_FRAMES}

\* C34: every projectile is removed while the duel's updates run: after each
\* update a laser has at most 119 updates left, one fewer than before, and is
\* neither off the canvas nor in contact with the player; a bomb counts down
\* to its detonation, stays detonated for 20 updates and is gone after them;
\* only a bomb that detonates in the step reduces the player's RPM, once.
C34_ProjectilesRemoved ==
  [][WeaponsUpdated =>
       /\ LasersRunOut
       /\ BombsRunOut
       /\ Len(game'.duelLasers) <= Len(game.duelLasers) + 1
       /\ Len(game'.duelBombs) <= Len(game.duelBombs) + 1
       /\ Cardinality({k \in 1..Len(obs'.shots) : obs'.shots[k].kind = "bomb"})
            <= Cardinality(Detonated)]_vars

\* A laser is on its last update while a bomb that detonated fades, bombs
\* thrown before it having been removed.
C34_LastUpdate ==
  /\ game.gameMode = "duel" /\ game.playerAlive /\ game.duelRound = 3
  /\ \E i \in 1..Len(game.duelLasers) : game.duelLasers[i].life = 1
  /\ \E i \in 1..Len(game.duelBombs) :
       game.duelBombs[i].exploded /\ game.duelBombs[i].explodeTimer < BOMB_EXPLODE_FRAMES
  /\ Len(game.duelBombs) * DUEL_BOMB_INTERVAL < game.lastBombFrame

\* The projectiles that reached the player in the step just taken
Shots == {obs'.shots[k] : k \in 1..Len(obs'.shots)}

\* C35: a projectile reduces the player's RPM only 20 frames or more after
\* the last projectile hit, and the frame of the last projectile hit is the
\* frame of the last reduction: it changes only in a step in which a
\* projectile reduced the RPM, to that step's frame. A projectile that
\* reaches the player inside the window changes neither, and a laser that
\* does is destroyed all the same.
C35_ProjectileInvuln ==
  [][obs'.ev = "step" =>
       /\ \A h \in Shots :
            /\ h.after < h.before =>
                 h.sinceLast >= DUEL_PROJECTILE_INVULN /\ h.lastAfter = h.frame
            /\ h.sinceLast < DUEL_PROJECTILE_INVULN =>
                 h.after = h.before /\ h.lastAfter = h.lastBefore
       /\ game'.lastProjectileHitFrame # game.lastProjectileHitFrame =>
            /\ game'.lastProjectileHitFrame = game'.frameCount
            /\ \E h \in Shots : h.lastAfter = h.frame /\ h.lastBefore # h.frame
       /\ Shots # {} /\ game'.playerAlive /\ ~obs'.reset =>
            \A j \in 1..Len(game'.duelLasers) :
              Hypot(game'.duelLasers[j].x - game'.player.pos.x,
                    game'.duelLasers[j].y - game'.player.pos.y) >= PLAYER_R + 6 * DU]_vars

\* A laser reaches the player 12 frames after a projectile reduced the RPM,
\* inside the window, and is no longer in the list.
C35_LaserInWindow ==
  /\ obs.ev = "step" /\ game.playerAlive
  /\ \E k \in 1..Len(obs.shots) :
       /\ obs.shots[k].kind = "laser"
       /\ obs.shots[k].sinceLast = DUEL_LASER_INTERVAL
       /\ obs.shots[k].lastBefore >= 0
       /\ obs.shots[k].after = obs.shots[k].before
  /\ game.frameCount - game.lastProjectileHitFrame = DUEL_LASER_INTERVAL

\* Pixels per second by which the claim has the zone shrink in each mode
ClaimedRate(mode) ==
  CASE mode = "arena" -> 8 * DU
    [] mode = "survival" -> 2 * DU
    [] mode = "duel" -> 4 * DU

C37_DirectionsDefined ==
  obs.ev = "step" => \A k \in 1..Len(obs.ai) : ~obs.ai[k].dodgeNaN

\* The bots of g that are not alive
DeadBots(g) == {i \in 1..Len(g.bots) : ~g.bots[i].alive}

\* C38: in arena and survival mode the kill counter is the number of bots
\* that are not alive, so kills plus live bots is the number of bots spawned;
\* within a session the list of bots only grows and a bot that is not alive
\* stays so.
C38_KillsCountDead ==
  [][Playing' /\ game'.gameMode \in {"arena", "survival"} =>
       /\ game'.kills = Cardinality(DeadBots(game'))
       /\ Playing /\ obs'.ev # "start" =>
            /\ Len(game'.bots) >= Len(game.bots)
            /\ DeadBots(game) \subseteq DeadBots(game')]_vars

\* A survival session with two bots spawned, the first of them eliminated
\* and counted, the second alive.
C38_OneOfTwo ==
  /\ Survival(game) /\ Len(game.bots) = 2
  /\ game.kills = 1 /\ DeadBots(game) = {1} /\ game.frameCount > 360

\* C39: a survival session is never won: isWinner is never true, and the
\* session is over (phase gameover, or the game-over flag set) only with the
\* player eliminated, whatever the number of bots spawned and eliminated.
C39_SurvivalNeverWon ==
  Survival(game) =>
    /\ ~gameState.isWinner
    /\ gameState.phase = "gameover" \/ gameOver => ~game.playerAlive
    /\ gameState.phase \in {"playing", "gameover"}

\* Every bot spawned so far has been eliminated and the player is alive: an
\* update that counts no live bot waits to be rendered.
C39_NoBotLeft ==
  /\ Survival(game) /\ game.playerAlive
  /\ Len(game.bots) = 1 /\ game.kills = 1
  /\ gameState.phase = "playing"
  /\ \E k \in 1..Len(pending) :
       pending[k].kind = "tick" /\ pending[k].aliveCount = 0

\* The second bot has been spawned, at frame 360
C21_SecondSpawn ==
  Survival(game) /\ game.frameCount >= 360 /\ Len(game.bots) = 2

====
